---- MODULE Spec2Model ----
(***************************************************************************)
(* Model of the agent run protocol (runAgent), the sandbox lifecycle       *)
(* manager (SandboxManager) and the tool catalogue (createE2BTools) of     *)
(* bxxf/auto-issue-resolver.                                               *)
(*                                                                         *)
(* Asynchronous functions are split at their awaits: every action is the   *)
(* synchronous stretch of code between two suspension points.  Remote      *)
(* outcomes (sandbox creation, gateway token, kill, git clone) and what    *)
(* the agent stream does next are nondeterministic choices.                *)
(***************************************************************************)
EXTENDS Integers, Sequences, FiniteSets, TLC

\* ------------------------------------------------------------------ bounds
\* Environment steps of one run: stream messages plus tool invocations.
MaxSteps == 4
\* Tool invocations (ask_user, sandbox_clone) made on one catalogue.
MaxCalls == 2
\* Direct cleanup() calls made by the owner of a stand-alone catalogue.
MaxCleanups == 2

\* --------------------------------------------------------------- constants
\* null, for every nullable field (manager.ts:23-27, runner.ts:38).
NULL == 0
\* The preview port the report's sandbox URL is derived from.
PreviewPort == 3000
\* The working path cloneRepo derives from the clone URL (one URL is modelled).
RepoPath == 1
\* The Date recorded by initialize, and a gateway token value.
StartStamp == 1
TokenValue == 1

VARIABLES
    host,            \* "runAgent": the manager is driven by runAgent;
                     \* "catalogue": createE2BTools is used on its own
    enablePlaywright,\* SandboxConfig.enablePlaywright
    hasSink,         \* RunAgentOptions.onEvent is given
    hasAskHandler,   \* ToolCallbacks.onAskUser is given
    mgr,             \* the SandboxManager's five private fields
    alive,           \* remote sandboxes currently alive
    created,         \* number of remote sandboxes created so far
    pc,              \* position of runAgent / of the catalogue's owner
    streamEnd,       \* how the agent stream ended: "none", "closed", "threw"
    consumed,        \* the messages the for-await loop has processed
    turnCount,       \* runAgent's turnCount
    finalResult,     \* index in consumed of the captured result message, or NULL
    totalCost,       \* runAgent's totalCost
    events,          \* the events delivered to the sink, in order
    result,          \* what runAgent returned: "none", "ok", "err_init", ...
    report,          \* the report of an ok result
    aborted,         \* the run's AbortSignal has fired
    calls,           \* the tool invocations, each with its position
    ncalls,          \* number of tool invocations started
    pendingReject,   \* pendingQuestion.reject: the question whose reject it holds
    killHandle,      \* the sandbox a suspended cleanup() is killing
    killFailed,      \* history: some sandbox.kill() threw
    cleanupsDone,    \* history: number of cleanup() calls that returned
    clonedSince,     \* history: a clone succeeded since the last initialize/cleanup
    abortPending,    \* history: the questions pending when the signal fired
    op,              \* the sandbox tool invocation in progress, with its position
    remote,          \* the remote calls that invocation has issued, in order
    bisecting,       \* the remote working tree is in the middle of a bisection
    nops,            \* number of sandbox tool invocations started
    resultMsg,       \* the result message handed to buildReport
    built,           \* the report buildReport returned for it
    issueUrl,        \* the text handed to parseIssueUrl, and how it was put together
    parsedUrl,       \* what parseIssueUrl returned for it
    maxTurns,        \* AgentConfig.maxTurns, or NULL when no cap is set
    queryOptions     \* the options the streaming session was opened with

cfgVars  == <<host, enablePlaywright, hasSink, hasAskHandler, maxTurns>>
mgrVars  == <<mgr, alive, created>>
runVars  == <<pc, streamEnd, consumed, turnCount, finalResult, totalCost,
              events, result, report, aborted>>
callVars == <<calls, ncalls, pendingReject>>
histVars == <<killHandle, killFailed, cleanupsDone, clonedSince, abortPending>>
toolVars == <<op, remote, bisecting, nops>>
reportVars == <<resultMsg, built>>
urlVars == <<issueUrl, parsedUrl>>
optVars == <<queryOptions>>
vars     == <<cfgVars, mgrVars, runVars, callVars, histVars, toolVars, reportVars, urlVars,
              optVars>>

\* ------------------------------------------------- the agent's message stream
\* A tool_use_result payload: the fields isToolResultSuccess looks at.
NoPayload == [defined |-> FALSE, hasIsError |-> FALSE, isError |-> FALSE,
              hasSuccess |-> FALSE, success |-> FALSE]
Payload(hasIsError, isError, hasSuccess, success) ==
    [defined |-> TRUE, hasIsError |-> hasIsError, isError |-> isError,
     hasSuccess |-> hasSuccess, success |-> success]

SystemMsg == [type |-> "system", blocks |-> <<>>, toolResult |-> NoPayload, cost |-> 0]
AssistantMsg(blocks) ==
    [type |-> "assistant", blocks |-> blocks, toolResult |-> NoPayload, cost |-> 0]
UserMsg(payload) ==
    [type |-> "user", blocks |-> <<>>, toolResult |-> payload, cost |-> 0]
ResultMsg(cost) ==
    [type |-> "result", blocks |-> <<>>, toolResult |-> NoPayload, cost |-> cost]

\* The messages the stream may yield, in any order.
Messages ==
    { SystemMsg,
      AssistantMsg(<<"thinking", "tool_use">>),
      AssistantMsg(<<"text">>),
      UserMsg(Payload(TRUE, FALSE, FALSE, FALSE)),
      ResultMsg(1) }

\* --------------------------------------------------------------- the events
\* An AgentEvent.  msg and blk name the message and the content block that
\* caused a stream-derived event (0 for the others); n is the turn number of
\* turn_complete and the question of ask_user.
Ev(type, phase, n, msg, blk, success) ==
    [type |-> type, phase |-> phase, n |-> n, msg |-> msg, blk |-> blk,
     success |-> success]
PhaseChange(phase) == Ev("phase_change", phase, 0, 0, 0, FALSE)
ErrorEvent         == Ev("error", "", 0, 0, 0, FALSE)
CompleteEvent      == Ev("complete", "", 0, 0, 0, FALSE)
AskUserEvent(q)    == Ev("ask_user", "", q, 0, 0, FALSE)

\* onEvent?.(...): delivered only when a sink was given.
Emit(evs) == IF hasSink THEN events \o evs ELSE events

\* The event type a content block is turned into ("none": no event).
BlockEventType(block) ==
    CASE block = "thinking" -> "thinking"
      [] block = "text"     -> "message"
      [] block = "tool_use" -> "tool_call"
      [] OTHER              -> "none"

\* Faulty variant: the blocks of a message are walked last to first.
processAssistantMessage_reversed(message, mi) ==
    LET n == Len(message.blocks)
        all == [i \in 1..n |->
                  Ev(BlockEventType(message.blocks[n + 1 - i]), "", 0, mi, n + 1 - i, FALSE)]
    IN  SelectSeq(all, LAMBDA e : e.type # "none")

\* The events of one assistant message's content blocks, first to last.
processAssistantMessage(message, mi) ==
    LET all == [i \in 1..Len(message.blocks) |->
                  Ev(BlockEventType(message.blocks[i]), "", 0, mi, i, FALSE)]
    IN  SelectSeq(all, LAMBDA e : e.type # "none")

\* Faulty variant: the success field is looked at before isError.
isToolResultSuccess_successFirst(p) ==
    IF p.hasSuccess THEN p.success
    ELSE IF p.hasIsError THEN ~p.isError
    ELSE TRUE

\* runner.ts:188-194
isToolResultSuccess(p) ==
    IF p.hasIsError THEN ~p.isError
    ELSE IF p.hasSuccess THEN p.success
    ELSE TRUE

\* Faulty variant: turn_complete is emitted after the message's blocks.
AssistantEvents_turnLast(message, mi, turn) ==
    processAssistantMessage(message, mi) \o <<Ev("turn_complete", "", turn, mi, 0, FALSE)>>

\* Faulty variant: turn_complete carries the count before the increment.
AssistantEvents_staleTurn(message, mi, turn) ==
    <<Ev("turn_complete", "", turn - 1, mi, 0, FALSE)>> \o processAssistantMessage(message, mi)

\* case "assistant": turn_complete, then the blocks' events.
AssistantEvents(message, mi, turn) ==
    <<Ev("turn_complete", "", turn, mi, 0, FALSE)>> \o processAssistantMessage(message, mi)

\* case "user": a tool_result event when the message carries a tool result.
UserEvents(message, mi) ==
    IF message.toolResult.defined
    THEN <<Ev("tool_result", "", 0, mi, 0, isToolResultSuccess(message.toolResult))>>
    ELSE <<>>

\* --------------------------------------------------------------- the manager
FreshManager ==
    [sandbox |-> NULL, repoPath |-> NULL, startedAt |-> NULL,
     mcpUrl |-> NULL, mcpToken |-> NULL]

\* initialize(), up to the await after Sandbox.create resolved with sandbox id.
initialize_created(m, id, playwright) ==
    IF playwright
    THEN [m EXCEPT !.sandbox = id, !.mcpUrl = id]
    ELSE [m EXCEPT !.sandbox = id, !.startedAt = StartStamp]

\* initialize(), after getMcpToken resolved with tok (NULL: undefined).
initialize_token(m, tok) ==
    [m EXCEPT !.mcpToken = tok, !.startedAt = StartStamp]

\* initialize(), its return: reading this.sandbox.sandboxId throws inside the
\* try when the handle was reset in the meantime, and err is returned.
initialize_returns_ok(m) == m.sandbox # NULL

setRepoPath(m, path) == [m EXCEPT !.repoPath = path]

isInitialized(m) == m.sandbox # NULL
hasMcpGateway(m) == m.mcpUrl # NULL /\ m.mcpToken # NULL

\* The public host of a port of sandbox id (any non-null value).
HostOf(id, port) == id

getHostUrl(m, port) == IF m.sandbox = NULL THEN NULL ELSE HostOf(m.sandbox, port)

\* Faulty variant: an error thrown by sandbox.kill() escapes cleanup().
cleanupOutcome_rethrows(killOk) == IF killOk THEN "returns" ELSE "throws"

\* cleanup(): the try/catch around kill swallows its error.
cleanupOutcome(killOk) == "returns"

\* cleanup(): the five assignments after the kill.
cleanupReset(m) == FreshManager

AllNull(m) == m = FreshManager

\* ------------------------------------------------------------ tool calls
NoCall == [tool |-> "none", pc |-> "idle", handle |-> NULL,
           envelope |-> "none", promise |-> "none"]
CallIds == 1..MaxCalls

\* textResult(text, isError)
Envelope(isError) == IF isError THEN "error" ELSE "ok"

\* ------------------------------------------------------------- the report
NoReport == [built |-> FALSE, turnsUsed |-> 0, costUsd |-> 0,
             sandboxUrl |-> NULL, finalResult |-> NULL]

\* Faulty variant: the report is built without the result message.
buildReport_noResult(final, turns, cost, sandboxUrl) ==
    [built |-> TRUE, turnsUsed |-> turns, costUsd |-> 0,
     sandboxUrl |-> sandboxUrl, finalResult |-> NULL]

\* buildReport: the arguments runAgent passes, as the report keeps them.
buildReport(final, turns, cost, sandboxUrl) ==
    [built |-> TRUE, turnsUsed |-> turns, costUsd |-> cost,
     sandboxUrl |-> sandboxUrl, finalResult |-> final]

\* ------------------------------------------------------------------- Init
InitRun ==
    /\ host \in {"runAgent", "catalogue"}
    /\ enablePlaywright \in BOOLEAN
    /\ hasSink \in (IF host = "runAgent" THEN BOOLEAN ELSE {FALSE})
    /\ hasAskHandler \in (IF host = "runAgent" THEN {TRUE} ELSE BOOLEAN)
    /\ mgr = FreshManager
    /\ alive = {}
    /\ created = 0
    /\ pc = IF host = "runAgent" THEN "start" ELSE "idle"
    /\ streamEnd = "none"
    /\ consumed = <<>>
    /\ turnCount = 0
    /\ finalResult = NULL
    /\ totalCost = 0
    /\ events = <<>>
    /\ result = "none"
    /\ report = NoReport
    /\ aborted = FALSE
    /\ calls = [c \in CallIds |-> NoCall]
    /\ ncalls = 0
    /\ pendingReject = NULL
    /\ killHandle = NULL
    /\ killFailed = FALSE
    /\ cleanupsDone = 0
    /\ clonedSince = FALSE
    /\ abortPending = {}

\* No sandbox tool has been invoked and no report has been asked for.
NoValue == [exitCode |-> 0, found |-> FALSE, hasCommit |-> FALSE,
            stepsCount |-> 0, success |-> TRUE, screenshot |-> FALSE]
Pending == [settled |-> FALSE, ok |-> FALSE, error |-> "none", value |-> NoValue]
\* sandbox_edit has neither its argument nor the file's content yet.
NoEdit == [read |-> FALSE, content |-> <<>>, old_string |-> <<>>]
NoOp == [tool |-> "none", pc |-> "idle", path |-> "none", handle |-> NULL,
         before |-> FreshManager, steps |-> 0, maxSteps |-> 0, maxStepsGiven |-> FALSE,
         mark |-> "none", resetOk |-> FALSE, called |-> FALSE, last |-> "none",
         edit |-> NoEdit, pending |-> Pending, result |-> Pending, envelope |-> "none"]
InitTools ==
    /\ op = NoOp
    /\ remote = <<>>
    /\ bisecting = FALSE
    /\ nops = 0

NoResultMsg == [present |-> FALSE, hasResult |-> FALSE, is_error |-> FALSE, text |-> <<>>]
NoBuilt == [built |-> FALSE]
InitReport ==
    /\ resultMsg = NoResultMsg
    /\ built = NoBuilt

NoUrl == [chosen |-> FALSE, text |-> <<>>]
NoParsedUrl == [returned |-> FALSE]
InitUrl ==
    /\ issueUrl = NoUrl
    /\ parsedUrl = NoParsedUrl

\* No session has been opened.
NoOptions == [opened |-> FALSE, hasMaxTurns |-> FALSE, maxTurns |-> NULL]
\* The run configuration sets no turn cap.
InitOptions ==
    /\ maxTurns = NULL
    /\ queryOptions = NoOptions

Init == InitRun /\ InitTools /\ InitReport /\ InitUrl /\ InitOptions

\* ------------------------------------------------------------- runAgent
\* runner.ts:60-63: the first phase event, then initialize() is awaited.
RunStart ==
    /\ host = "runAgent" /\ pc = "start"
    /\ events' = Emit(<<PhaseChange("initializing")>>)
    /\ pc' = "init_create"
    /\ UNCHANGED <<cfgVars, toolVars, reportVars, urlVars, optVars, mgrVars, callVars, histVars, streamEnd, consumed,
                   turnCount, finalResult, totalCost, result, report, aborted>>

\* Faulty variant: the exploring phase is announced although initialize() failed.
InitFailEvents_exploring == <<ErrorEvent, PhaseChange("exploring")>>

\* runner.ts:64-67: initialize() returned err.
InitFailEvents == <<ErrorEvent>>

RunInitFailed ==
    /\ events' = Emit(InitFailEvents)
    /\ result' = "err_init"
    /\ pc' = "returned"
    /\ UNCHANGED <<streamEnd, consumed, turnCount, finalResult, totalCost,
                   report, aborted, queryOptions>>

\* runner.ts:74-85: the Playwright phase event, when the gateway is there.
PlaywrightEvents(m) ==
    IF enablePlaywright /\ hasMcpGateway(m) /\ m.mcpUrl # NULL /\ m.mcpToken # NULL
    THEN <<PhaseChange("initializing")>>
    ELSE <<>>

\* runner.ts:87-98: the options of the streaming session.  No maxTurns member
\* is written, whatever config.maxTurns holds.
queryOptionsOf(cap) == [opened |-> TRUE, hasMaxTurns |-> FALSE, maxTurns |-> NULL]

\* runner.ts:69-108: initialize() returned ok; the stream is opened.
RunInitSucceeded(m) ==
    /\ events' = Emit(PlaywrightEvents(m) \o <<PhaseChange("exploring")>>)
    /\ pc' = "streaming"
    /\ queryOptions' = queryOptionsOf(maxTurns)
    /\ UNCHANGED <<streamEnd, consumed, turnCount, finalResult, totalCost,
                   result, report, aborted>>

\* manager.ts:57/69: Sandbox.create resolves or rejects.
RunInitCreate(ok) ==
    /\ host = "runAgent" /\ pc = "init_create"
    /\ IF ok
       THEN /\ created' = created + 1
            /\ alive' = alive \cup {created + 1}
            /\ mgr' = initialize_created(mgr, created + 1, enablePlaywright)
            /\ clonedSince' = FALSE
            /\ IF enablePlaywright
               THEN /\ pc' = "init_token"
                    /\ UNCHANGED <<streamEnd, consumed, turnCount, finalResult,
                                   totalCost, events, result, report, aborted,
                                   queryOptions>>
               ELSE RunInitSucceeded(mgr')
       ELSE /\ RunInitFailed
            /\ UNCHANGED <<mgrVars, clonedSince>>
    /\ UNCHANGED <<cfgVars, toolVars, reportVars, urlVars, callVars, killHandle, killFailed, cleanupsDone,
                   abortPending>>

\* manager.ts:65: getMcpToken resolves (a token, or undefined) or rejects.
RunInitToken(tok) ==
    /\ host = "runAgent" /\ pc = "init_token"
    /\ IF tok = "throws"
       THEN /\ RunInitFailed
            /\ UNCHANGED mgr
       ELSE /\ mgr' = initialize_token(mgr, IF tok = "value" THEN TokenValue ELSE NULL)
            /\ IF initialize_returns_ok(mgr')
               THEN RunInitSucceeded(mgr')
               ELSE RunInitFailed
    /\ UNCHANGED <<cfgVars, toolVars, reportVars, urlVars, alive, created, callVars, histVars>>

\* ---------------------------------------------------- the streaming loop
\* Stream messages and tool invocations of a run share one budget.
StepsLeft == Len(consumed) + ncalls < MaxSteps

\* The events of one iteration of the for-await loop (runner.ts:110-133).
MessageEvents(message, mi, turn) ==
    CASE message.type = "assistant" -> AssistantEvents(message, mi, turn)
      [] message.type = "user"      -> UserEvents(message, mi)
      [] OTHER                      -> <<>>

\* A tool invocation that has not returned its envelope yet.
InFlight(c) == calls[c].pc \notin {"idle", "done"}

\* The stream yields message m and the loop body runs.  The agent runtime
\* yields its next message only once the tools it invoked have returned, and
\* yields none after the signal fired.
StreamMessage(m) ==
    /\ host = "runAgent" /\ pc = "streaming"
    /\ ~aborted
    /\ \A c \in CallIds : ~InFlight(c)
    /\ StepsLeft
    /\ consumed' = Append(consumed, m)
    /\ turnCount' = IF m.type = "assistant" THEN turnCount + 1 ELSE turnCount
    /\ events' = Emit(MessageEvents(m, Len(consumed) + 1, turnCount + 1))
    /\ finalResult' = IF m.type = "result" THEN Len(consumed) + 1 ELSE finalResult
    /\ totalCost' = IF m.type = "result" THEN m.cost ELSE totalCost
    /\ UNCHANGED <<cfgVars, toolVars, reportVars, urlVars, optVars, mgrVars, callVars, histVars, pc, streamEnd, result,
                   report, aborted>>

\* The caller's AbortSignal fires while the stream is open.
Abort ==
    /\ host = "runAgent" /\ pc = "streaming"
    /\ ~aborted
    /\ aborted' = TRUE
    /\ abortPending' = {c \in CallIds : calls[c].promise = "pending"}
    /\ UNCHANGED <<cfgVars, toolVars, reportVars, urlVars, optVars, mgrVars, callVars, pc, streamEnd, consumed, turnCount,
                   finalResult, totalCost, events, result, report, killHandle,
                   killFailed, cleanupsDone, clonedSince>>

\* Faulty variant: the catch block emits no error event.
CatchEvents_silent == <<>>

\* runner.ts:139: the catch block's event.
CatchEvents == <<ErrorEvent>>

\* runner.ts:142: the finally block's event.
FinallyEvents == <<PhaseChange("completed")>>

\* runner.ts:146-151: the code after the try statement.
RunReturn(evs, m, cleanupResult, end) ==
    /\ pc' = "returned"
    /\ IF cleanupResult = "throws"
       THEN /\ result' = "err_cleanup"
            /\ events' = evs
            /\ report' = report
       ELSE IF end = "threw"
       THEN /\ result' = "err_stream"
            /\ events' = evs
            /\ report' = report
       ELSE /\ result' = "ok"
            /\ report' = buildReport(finalResult, turnCount, totalCost,
                                     getHostUrl(m, PreviewPort))
            /\ events' = IF hasSink THEN evs \o <<CompleteEvent>> ELSE evs

\* runner.ts:143 with manager.ts:93-96: cleanupSandbox() is called; it awaits
\* the kill when there is a sandbox and returns at once when there is none.
RunCleanupCall(evs, end) ==
    IF mgr.sandbox # NULL
    THEN /\ killHandle' = mgr.sandbox
         /\ pc' = "cleanup"
         /\ events' = evs
         /\ UNCHANGED <<result, report, cleanupsDone>>
    ELSE /\ cleanupsDone' = cleanupsDone + 1
         /\ RunReturn(evs, mgr, "returns", end)
         /\ UNCHANGED killHandle

\* The stream throws: the catch block (runner.ts:134-140), then the finally.
StreamThrow ==
    /\ host = "runAgent" /\ pc = "streaming"
    /\ streamEnd' = "threw"
    /\ calls' = IF pendingReject # NULL /\ calls[pendingReject].promise = "pending"
                THEN [calls EXCEPT ![pendingReject].promise = "rejected"]
                ELSE calls
    /\ RunCleanupCall(Emit(CatchEvents \o FinallyEvents), "threw")
    /\ UNCHANGED <<cfgVars, toolVars, reportVars, urlVars, optVars, mgrVars, ncalls, pendingReject, consumed, turnCount,
                   finalResult, totalCost, aborted, killFailed, clonedSince,
                   abortPending>>

\* The stream closes: the loop ends, then the finally block.
StreamClose ==
    /\ host = "runAgent" /\ pc = "streaming"
    /\ streamEnd' = "closed"
    /\ RunCleanupCall(Emit(FinallyEvents), "closed")
    /\ UNCHANGED <<cfgVars, toolVars, reportVars, urlVars, optVars, mgrVars, callVars, consumed, turnCount, finalResult,
                   totalCost, aborted, killFailed, clonedSince, abortPending>>

\* manager.ts:96-105 resumed in runAgent's finally: the kill resolved or threw.
RunKillDone(killOk) ==
    /\ host = "runAgent" /\ pc = "cleanup"
    /\ alive' = IF killOk THEN alive \ {killHandle} ELSE alive
    /\ killFailed' = (killFailed \/ ~killOk)
    /\ mgr' = IF cleanupOutcome(killOk) = "returns" THEN cleanupReset(mgr) ELSE mgr
    /\ clonedSince' = IF cleanupOutcome(killOk) = "returns" THEN FALSE ELSE clonedSince
    /\ cleanupsDone' = cleanupsDone + 1
    /\ killHandle' = NULL
    /\ RunReturn(events, mgr', cleanupOutcome(killOk), streamEnd)
    /\ UNCHANGED <<cfgVars, toolVars, reportVars, urlVars, optVars, created, callVars, streamEnd, consumed, turnCount,
                   finalResult, totalCost, aborted, abortPending>>

\* ------------------------------------------------- the tool catalogue
\* The agent runtime invokes tools while the stream is open; a stand-alone
\* catalogue is invoked whenever its owner likes.
CanInvoke ==
    /\ ncalls < MaxCalls
    /\ host = "runAgent" => (pc = "streaming" /\ StepsLeft)

\* tools.ts:356-362 with runner.ts:40-53: ask_user is invoked.
AskBegin ==
    /\ CanInvoke
    /\ ncalls' = ncalls + 1
    /\ IF ~hasAskHandler
       THEN /\ calls' = [calls EXCEPT ![ncalls + 1] =
                           [NoCall EXCEPT !.tool = "ask_user", !.pc = "done",
                                          !.envelope = Envelope(TRUE)]]
            /\ UNCHANGED <<pendingReject, events>>
       ELSE /\ calls' = [calls EXCEPT ![ncalls + 1] =
                           [NoCall EXCEPT !.tool = "ask_user", !.pc = "ask_wait",
                                          !.promise = "pending"]]
            /\ IF host = "runAgent"
               THEN /\ pendingReject' = ncalls + 1
                    /\ events' = Emit(<<AskUserEvent(ncalls + 1)>>)
               ELSE UNCHANGED <<pendingReject, events>>
    /\ UNCHANGED <<cfgVars, toolVars, reportVars, urlVars, optVars, mgrVars, histVars, pc, streamEnd, consumed, turnCount,
                   finalResult, totalCost, result, report, aborted>>

\* runner.ts:47-50: the consumer invokes the resolver an ask_user event carried.
AnswerQuestion(q) ==
    /\ host = "runAgent" /\ hasSink
    /\ pc \in {"streaming", "cleanup"}
    /\ calls[q].promise # "none"
    /\ pendingReject' = NULL
    /\ calls' = IF calls[q].promise = "pending"
                THEN [calls EXCEPT ![q].promise = "resolved"]
                ELSE calls
    /\ UNCHANGED <<cfgVars, toolVars, reportVars, urlVars, optVars, mgrVars, runVars, histVars, ncalls>>

\* The promise an owner-supplied onAskUser returned settles.
HandlerSettles(q, how) ==
    /\ host = "catalogue"
    /\ calls[q].promise = "pending"
    /\ calls' = [calls EXCEPT ![q].promise = how]
    /\ UNCHANGED <<cfgVars, toolVars, reportVars, urlVars, optVars, mgrVars, runVars, histVars, ncalls, pendingReject>>

\* tools.ts:362-366: the awaited promise settled; the envelope is returned.
AskSettle(q) ==
    /\ calls[q].pc = "ask_wait"
    /\ calls[q].promise \in {"resolved", "rejected"}
    /\ calls' = [calls EXCEPT ![q].pc = "done",
                              ![q].envelope = Envelope(calls[q].promise = "rejected")]
    /\ UNCHANGED <<cfgVars, toolVars, reportVars, urlVars, optVars, mgrVars, runVars, histVars, ncalls, pendingReject>>

\* repo.ts:13-31: cloneRepo takes the handle of manager m and issues the
\* remote command, or fails at once when there is no handle.
cloneRepo_start(c, m) ==
    IF m.sandbox = NULL
    THEN calls' = [calls EXCEPT ![c].tool = "sandbox_clone", ![c].pc = "done",
                                ![c].envelope = Envelope(TRUE)]
    ELSE calls' = [calls EXCEPT ![c].tool = "sandbox_clone", ![c].pc = "clone_run",
                                ![c].handle = m.sandbox]

\* tools.ts:59-67: sandbox_clone is invoked.  (The clone's interplay with the
\* manager is explored on the stand-alone catalogue, where initialize, clone
\* and cleanup interleave freely.)
CloneBegin ==
    /\ host = "catalogue"
    /\ CanInvoke
    /\ ncalls' = ncalls + 1
    /\ IF ~isInitialized(mgr)
       THEN calls' = [calls EXCEPT ![ncalls + 1].tool = "sandbox_clone",
                                   ![ncalls + 1].pc = "lazy_create"]
       ELSE cloneRepo_start(ncalls + 1, mgr)
    /\ UNCHANGED <<cfgVars, toolVars, reportVars, urlVars, optVars, mgrVars, runVars, histVars, pendingReject>>

\* tools.ts:61-67 with manager.ts:57/69: the lazy initialize's Sandbox.create
\* resolves or rejects; when initialize returns ok, cloneRepo is called in the
\* same turn.
LazyCreate(c, ok) ==
    /\ calls[c].pc = "lazy_create"
    /\ IF ok
       THEN /\ created' = created + 1
            /\ alive' = alive \cup {created + 1}
            /\ mgr' = initialize_created(mgr, created + 1, enablePlaywright)
            /\ clonedSince' = FALSE
            /\ IF enablePlaywright
               THEN calls' = [calls EXCEPT ![c].pc = "lazy_token"]
               ELSE cloneRepo_start(c, mgr')
       ELSE /\ calls' = [calls EXCEPT ![c].pc = "done", ![c].envelope = Envelope(TRUE)]
            /\ UNCHANGED <<mgrVars, clonedSince>>
    /\ UNCHANGED <<cfgVars, toolVars, reportVars, urlVars, optVars, runVars, ncalls, pendingReject, killHandle, killFailed,
                   cleanupsDone, abortPending>>

\* tools.ts:61-67 with manager.ts:65-81: getMcpToken resolves or rejects in
\* the lazy initialize.
LazyToken(c, tok) ==
    /\ calls[c].pc = "lazy_token"
    /\ IF tok = "throws"
       THEN /\ calls' = [calls EXCEPT ![c].pc = "done", ![c].envelope = Envelope(TRUE)]
            /\ UNCHANGED mgr
       ELSE /\ mgr' = initialize_token(mgr, IF tok = "value" THEN TokenValue ELSE NULL)
            /\ IF initialize_returns_ok(mgr')
               THEN cloneRepo_start(c, mgr')
               ELSE calls' = [calls EXCEPT ![c].pc = "done",
                                           ![c].envelope = Envelope(TRUE)]
    /\ UNCHANGED <<cfgVars, toolVars, reportVars, urlVars, optVars, alive, created, runVars, ncalls, pendingReject, histVars>>

CloneOutcomes == {"exit0", "nonzero", "timeout", "error"}

\* repo.ts:33-46: the manager after the remote command ended.
cloneRepo_finish(m, outcome) ==
    IF outcome = "exit0" THEN setRepoPath(m, RepoPath) ELSE m

\* repo.ts:31-46 with tools.ts:68-71: the remote git clone ended.
CloneFinish(c, outcome) ==
    /\ calls[c].pc = "clone_run"
    /\ outcome = "exit0" => calls[c].handle \in alive
    /\ mgr' = cloneRepo_finish(mgr, outcome)
    /\ clonedSince' = (clonedSince \/ outcome = "exit0")
    /\ calls' = [calls EXCEPT ![c].pc = "done", ![c].handle = NULL,
                              ![c].envelope = Envelope(outcome # "exit0")]
    /\ UNCHANGED <<cfgVars, toolVars, reportVars, urlVars, optVars, alive, created, runVars, ncalls, pendingReject,
                   killHandle, killFailed, cleanupsDone, abortPending>>

\* ------------------------------------- the owner of a stand-alone catalogue
\* tools.ts:374 with manager.ts:93-96: cleanup() is called.
CleanupCall ==
    /\ host = "catalogue" /\ pc = "idle"
    /\ cleanupsDone < MaxCleanups
    /\ IF mgr.sandbox # NULL
       THEN /\ killHandle' = mgr.sandbox
            /\ pc' = "cleanup"
            /\ UNCHANGED cleanupsDone
       ELSE /\ cleanupsDone' = cleanupsDone + 1
            /\ UNCHANGED <<killHandle, pc>>
    /\ UNCHANGED <<cfgVars, toolVars, reportVars, urlVars, optVars, mgrVars, callVars, streamEnd, consumed, turnCount,
                   finalResult, totalCost, events, result, report, aborted,
                   killFailed, clonedSince, abortPending>>

\* manager.ts:96-105: the kill resolved or threw; the fields are reset.
CleanupKillDone(killOk) ==
    /\ host = "catalogue" /\ pc = "cleanup"
    /\ alive' = IF killOk THEN alive \ {killHandle} ELSE alive
    /\ killFailed' = (killFailed \/ ~killOk)
    /\ mgr' = IF cleanupOutcome(killOk) = "returns" THEN cleanupReset(mgr) ELSE mgr
    /\ clonedSince' = IF cleanupOutcome(killOk) = "returns" THEN FALSE ELSE clonedSince
    /\ cleanupsDone' = cleanupsDone + 1
    /\ killHandle' = NULL
    /\ pc' = "idle"
    /\ UNCHANGED <<cfgVars, toolVars, reportVars, urlVars, optVars, created, callVars, streamEnd, consumed, turnCount,
                   finalResult, totalCost, events, result, report, aborted,
                   abortPending>>

\* ------------------------------------------------------------------ Next
Next ==
    \/ RunStart
    \/ \E ok \in BOOLEAN : RunInitCreate(ok)
    \/ \E tok \in {"throws", "undefined", "value"} : RunInitToken(tok)
    \/ \E m \in Messages : StreamMessage(m)
    \/ Abort
    \/ StreamThrow
    \/ StreamClose
    \/ \E killOk \in BOOLEAN : RunKillDone(killOk)
    \/ AskBegin
    \/ \E q \in CallIds : AnswerQuestion(q)
    \/ \E q \in CallIds, how \in {"resolved", "rejected"} : HandlerSettles(q, how)
    \/ \E q \in CallIds : AskSettle(q)
    \/ CloneBegin
    \/ \E c \in CallIds, ok \in BOOLEAN : LazyCreate(c, ok)
    \/ \E c \in CallIds, tok \in {"throws", "undefined", "value"} : LazyToken(c, tok)
    \/ \E c \in CallIds, outcome \in CloneOutcomes : CloneFinish(c, outcome)
    \/ CleanupCall
    \/ \E killOk \in BOOLEAN : CleanupKillDone(killOk)

Spec == Init /\ [][Next]_vars

\* =========================================================== sandbox tools
\* The tools of the catalogue that work on the sandbox, explored one
\* invocation at a time on a stand-alone catalogue whose owner calls
\* initialize and cleanup between invocations.  Each remote call settles
\* with a nondeterministic outcome.

\* Largest maxSteps option given to sandbox_bisect.
MaxBisectSteps == 2
\* Tool invocations made on one catalogue.
MaxOps == 3

\* A path argument: an absolute path, a relative path, or none given.
PathArgs == {"abs", "rel", "none"}

\* Result.ok / Result.err, with the error classes of the sandbox.
Ok(value) == [settled |-> TRUE, ok |-> TRUE, error |-> "none", value |-> value]
Err(kind) == [settled |-> TRUE, ok |-> FALSE, error |-> kind, value |-> NoValue]
NotInitialized == Err("not_initialized")
TimeoutError   == Err("timeout")
GenericError   == Err("sandbox")

\* A call on the remote sandbox: the SDK entry point, what it does, the
\* location it works at, and whether that location was derived by the
\* operation (from a relative path or from no path at all).
RemoteCall(api, what, at, relative) ==
    [api |-> api, what |-> what, at |-> at, relative |-> relative]
NoRemote == RemoteCall("none", "none", "none", FALSE)

\* The synchronous head of an operation either fails at once or issues a call.
Failed(r) == [issue |-> FALSE, call |-> NoRemote, result |-> r]
Issued(c) == [issue |-> TRUE, call |-> c, result |-> Pending]

\* How a remote call ends.  "timeout" is a rejection whose message contains
\* the word timeout, "error" any other rejection.
FileOutcomes == {"resolved", "timeout", "error"}
RunOutcomes  == {"exit0", "nonzero", "timeout", "error"}

\* manager.ts:143-146
resolvePath(m, path) ==
    IF path = "abs" THEN "abs"
    ELSE IF m.repoPath # NULL THEN "repo" ELSE "home"

\* `cd "${manager.currentRepoPath}"`: a null repo path is interpolated as text.
repoDir(m) == IF m.repoPath # NULL THEN "repo" ELSE "null"

\* Faulty variant: readFile without its handle check.
readFile_unchecked(m, path) ==
    Issued(RemoteCall("files.read", "read", resolvePath(m, path), path # "abs"))

\* files.ts:8-17
readFile(m, path) ==
    IF m.sandbox = NULL THEN Failed(NotInitialized)
    ELSE Issued(RemoteCall("files.read", "read", resolvePath(m, path), path # "abs"))

\* files.ts:17-21
readFile_settle(outcome) == IF outcome = "resolved" THEN Ok(NoValue) ELSE GenericError

\* Faulty variant: writeFile creates the sandbox it misses, as sandbox_clone does.
writeFile_lazy(m, path) ==
    Issued(RemoteCall("files.write", "write", resolvePath(m, path), path # "abs"))

\* files.ts:24-34
writeFile(m, path) ==
    IF m.sandbox = NULL THEN Failed(NotInitialized)
    ELSE Issued(RemoteCall("files.write", "write", resolvePath(m, path), path # "abs"))

\* files.ts:34-38
writeFile_settle(outcome) == IF outcome = "resolved" THEN Ok(NoValue) ELSE GenericError

\* files.ts:41-50
listDirectory(m, path) ==
    IF m.sandbox = NULL THEN Failed(NotInitialized)
    ELSE Issued(RemoteCall("commands.run", "ls",
                           IF path # "none" THEN resolvePath(m, path)
                           ELSE IF m.repoPath # NULL THEN "repo" ELSE "home",
                           path # "abs"))

\* files.ts:50-59
listDirectory_settle(outcome) == IF outcome = "exit0" THEN Ok(NoValue) ELSE GenericError

\* files.ts:62-80
searchFiles(m, path) ==
    IF m.sandbox = NULL THEN Failed(NotInitialized)
    ELSE Issued(RemoteCall("commands.run", "search",
                           IF path # "none" THEN resolvePath(m, path)
                           ELSE IF m.repoPath # NULL THEN "repo" ELSE "dot",
                           path # "abs"))

\* files.ts:80-84: the exit code is not looked at.
searchFiles_settle(outcome) ==
    IF outcome \in {"exit0", "nonzero"} THEN Ok(NoValue) ELSE GenericError

\* runCommand, up to its remote call; cwd is the cwd option ("none": not given).
runCommand(m, cwd) ==
    IF m.sandbox = NULL THEN Failed(NotInitialized)
    ELSE Issued(RemoteCall("commands.run", "exec",
                           IF cwd # "none" THEN cwd
                           ELSE IF m.repoPath # NULL THEN "repo" ELSE "home",
                           cwd = "none"))

\* Faulty variant: a non-zero exit code is turned into an error.
runCommand_settle_exitIsError(outcome) ==
    CASE outcome = "exit0"   -> Ok(NoValue)
      [] outcome = "timeout" -> TimeoutError
      [] OTHER               -> GenericError

\* runCommand, after its remote call.
runCommand_settle(outcome) ==
    CASE outcome = "exit0"   -> Ok(NoValue)
      [] outcome = "nonzero" -> Ok([NoValue EXCEPT !.exitCode = 1])
      [] outcome = "timeout" -> TimeoutError
      [] OTHER               -> GenericError

\* repo.ts:49-63
getCommitsSince(m) ==
    IF m.sandbox = NULL THEN Failed(NotInitialized)
    ELSE Issued(RemoteCall("commands.run", "git_log", repoDir(m), TRUE))

\* repo.ts:63-89
getCommitsSince_settle(outcome) == IF outcome = "exit0" THEN Ok(NoValue) ELSE GenericError

\* repo.ts:92-101
gitCheckout(m) ==
    IF m.sandbox = NULL THEN Failed(NotInitialized)
    ELSE Issued(RemoteCall("commands.run", "git_checkout", repoDir(m), TRUE))

\* repo.ts:101-110
gitCheckout_settle(outcome) == IF outcome = "exit0" THEN Ok(NoValue) ELSE GenericError

\* repo.ts:8-31
cloneRepo(m) ==
    IF m.sandbox = NULL THEN Failed(NotInitialized)
    ELSE Issued(RemoteCall("commands.run", "clone", "home", FALSE))

\* repo.ts:31-46
cloneRepo_settle(outcome) ==
    CASE outcome = "exit0"   -> Ok(NoValue)
      [] outcome = "timeout" -> TimeoutError
      [] OTHER               -> GenericError

\* repo.ts:123-134
gitBisectStart(m) ==
    IF m.sandbox = NULL THEN Failed(NotInitialized)
    ELSE Issued(RemoteCall("commands.run", "bisect_start", repoDir(m), TRUE))

\* repo.ts:153-163
gitBisectMark(m) ==
    IF m.sandbox = NULL THEN Failed(NotInitialized)
    ELSE Issued(RemoteCall("commands.run", "bisect_mark", repoDir(m), TRUE))

\* repo.ts:204-212
gitBisectReset(m) ==
    IF m.sandbox = NULL THEN Failed(NotInitialized)
    ELSE Issued(RemoteCall("commands.run", "bisect_reset", repoDir(m), TRUE))

\* repo.ts:212-221
gitBisectReset_settle(outcome) == IF outcome = "exit0" THEN Ok(NoValue) ELSE GenericError

\* Faulty variant: a failed reset replaces the value gitBisectRun returns.
afterReset_propagates(pendingResult, resetResult) ==
    IF resetResult.ok THEN pendingResult ELSE resetResult

\* repo.ts:269-270, 275-282, 290-296, 298-299: gitBisectRun awaits the reset
\* and returns what it was about to return; the reset's Result is discarded.
afterReset(pendingResult, resetResult) == pendingResult

\* The sandbox a catalogue explored one invocation at a time holds: which
\* remote sandbox it is plays no role there.
SandboxId == 1

\* manager.ts:43-91, run to its end: how Sandbox.create and getMcpToken ended.
InitOutcomes(playwright) ==
    IF playwright THEN {"create_fails", "token_throws", "token_undefined", "token_value"}
    ELSE {"create_fails", "created"}
initialize(m, id, playwright, outcome) ==
    IF outcome = "create_fails" THEN m
    ELSE IF ~playwright THEN initialize_created(m, id, FALSE)
    ELSE IF outcome = "token_throws" THEN initialize_created(m, id, TRUE)
    ELSE initialize_token(initialize_created(m, id, TRUE),
                          IF outcome = "token_value" THEN TokenValue ELSE NULL)
initialize_ok(outcome) == outcome \notin {"create_fails", "token_throws"}

\* The tools with one operation and one remote call.
SingleTools == {"sandbox_read", "sandbox_write", "sandbox_ls", "sandbox_grep",
                "sandbox_exec", "sandbox_git_log", "sandbox_git_checkout"}
ToolPaths(tool) ==
    CASE tool \in {"sandbox_read", "sandbox_write", "sandbox_edit"} -> {"abs", "rel"}
      [] tool \in {"sandbox_ls", "sandbox_grep"} -> PathArgs
      [] OTHER -> {"none"}
ToolOutcomes(tool) ==
    IF tool \in {"sandbox_read", "sandbox_write"} THEN FileOutcomes ELSE RunOutcomes
ToolStart(tool, m, path) ==
    CASE tool = "sandbox_read"  -> readFile(m, path)
      [] tool = "sandbox_write" -> writeFile(m, path)
      [] tool = "sandbox_ls"    -> listDirectory(m, path)
      [] tool = "sandbox_grep"  -> searchFiles(m, path)
      [] tool = "sandbox_exec"  -> runCommand(m, "none")
      [] tool = "sandbox_git_log" -> getCommitsSince(m)
      [] OTHER -> gitCheckout(m)
ToolSettle(tool, outcome) ==
    CASE tool = "sandbox_read"  -> readFile_settle(outcome)
      [] tool = "sandbox_write" -> writeFile_settle(outcome)
      [] tool = "sandbox_ls"    -> listDirectory_settle(outcome)
      [] tool = "sandbox_grep"  -> searchFiles_settle(outcome)
      [] tool = "sandbox_exec"  -> runCommand_settle(outcome)
      [] tool = "sandbox_git_log" -> getCommitsSince_settle(outcome)
      [] OTHER -> gitCheckout_settle(outcome)

\* Faulty variant: a tool that reports every settled operation as a success.
ToolEnvelope_alwaysOk(tool, r) == Envelope(FALSE)

\* tools.ts:59-331: the envelope a tool handler builds from its operation's Result.
ToolEnvelope(tool, r) ==
    IF ~r.ok THEN Envelope(TRUE)
    ELSE IF tool = "sandbox_exec" THEN Envelope(r.value.exitCode # 0)
    ELSE IF tool = "sandbox_browser" THEN Envelope(~r.value.success)
    ELSE Envelope(FALSE)

\* The handler returns: the operation's Result and the envelope built from it.
Finish(o, r) == [o EXCEPT !.pc = "done", !.result = r, !.envelope = ToolEnvelope(o.tool, r)]

ToolIdle == host = "catalogue" /\ pc = "idle" /\ op.pc \in {"idle", "done"}
NewOp(tool, path) ==
    [NoOp EXCEPT !.tool = tool, !.path = path, !.handle = mgr.sandbox, !.before = mgr,
                 !.called = TRUE]

\* runner.ts:61 / the catalogue's owner: manager.initialize() on a fresh manager.
OwnerInitialize(outcome) ==
    /\ ToolIdle
    /\ mgr.sandbox = NULL
    /\ outcome \in InitOutcomes(enablePlaywright)
    /\ mgr' = initialize(mgr, SandboxId, enablePlaywright, outcome)
    /\ IF outcome # "create_fails"
       THEN bisecting' = FALSE /\ clonedSince' = FALSE
       ELSE UNCHANGED <<bisecting, clonedSince>>
    /\ UNCHANGED <<cfgVars, alive, created, runVars, callVars, reportVars, urlVars, optVars, op, remote,
                   nops, killHandle, killFailed, cleanupsDone, abortPending>>

\* tools.ts:374 with manager.ts:93-106: the owner calls cleanup() between two
\* invocations, and it runs to its end.
OwnerCleanup(killOk) ==
    /\ ToolIdle
    /\ mgr.sandbox # NULL
    /\ mgr' = IF cleanupOutcome(killOk) = "returns" THEN cleanupReset(mgr) ELSE mgr
    /\ clonedSince' = FALSE
    /\ UNCHANGED <<cfgVars, alive, created, runVars, callVars, toolVars, reportVars, urlVars, optVars,
                   killHandle, killFailed, cleanupsDone, abortPending>>

\* A tool with one operation is invoked: the operation's synchronous head.
ToolBegin(tool, path) ==
    /\ ToolIdle
    /\ nops < MaxOps
    /\ path \in ToolPaths(tool)
    /\ nops' = nops + 1
    /\ LET s == ToolStart(tool, mgr, path)
       IN  IF s.issue
           THEN /\ op' = [NewOp(tool, path) EXCEPT !.pc = "await"]
                /\ remote' = <<s.call>>
           ELSE /\ op' = Finish(NewOp(tool, path), s.result)
                /\ remote' = <<>>
    /\ UNCHANGED <<cfgVars, mgrVars, runVars, callVars, histVars, reportVars, urlVars, optVars, bisecting>>

\* The remote call of a one-operation tool settles and the handler returns.
ToolSettles(outcome) ==
    /\ op.pc = "await"
    /\ outcome \in ToolOutcomes(op.tool)
    /\ op' = Finish([op EXCEPT !.last = outcome], ToolSettle(op.tool, outcome))
    /\ UNCHANGED <<cfgVars, mgrVars, runVars, callVars, histVars, reportVars, urlVars, optVars,
                   remote, bisecting, nops>>

\* tools.ts:212-216: sandbox_git_log with a date that does not parse.
GitLogInvalidDate ==
    /\ ToolIdle
    /\ nops < MaxOps
    /\ nops' = nops + 1
    /\ op' = [NewOp("sandbox_git_log", "none") EXCEPT !.pc = "done", !.called = FALSE,
                                                     !.envelope = Envelope(TRUE)]
    /\ remote' = <<>>
    /\ UNCHANGED <<cfgVars, mgrVars, runVars, callVars, histVars, reportVars, urlVars, optVars, bisecting>>

\* tools.ts:339-345: sandbox_url.
UrlTool ==
    /\ ToolIdle
    /\ nops < MaxOps
    /\ nops' = nops + 1
    /\ op' = [NewOp("sandbox_url", "none") EXCEPT
                  !.pc = "done", !.called = FALSE,
                  !.envelope = Envelope(getHostUrl(mgr, PreviewPort) = NULL)]
    /\ remote' = <<>>
    /\ UNCHANGED <<cfgVars, mgrVars, runVars, callVars, histVars, reportVars, urlVars, optVars, bisecting>>

\* tools.ts:356-362: ask_user, up to the await of the callback.
AskTool ==
    /\ ToolIdle
    /\ nops < MaxOps
    /\ nops' = nops + 1
    /\ op' = IF ~hasAskHandler
             THEN [NewOp("ask_user", "none") EXCEPT !.pc = "done", !.called = FALSE,
                                                   !.envelope = Envelope(TRUE)]
             ELSE [NewOp("ask_user", "none") EXCEPT !.pc = "ask_wait", !.called = FALSE]
    /\ remote' = <<>>
    /\ UNCHANGED <<cfgVars, mgrVars, runVars, callVars, histVars, reportVars, urlVars, optVars, bisecting>>

\* tools.ts:362-366: the callback's promise settles.
AskToolSettles(how) ==
    /\ op.pc = "ask_wait"
    /\ op' = [op EXCEPT !.pc = "done", !.envelope = Envelope(how = "rejected")]
    /\ UNCHANGED <<cfgVars, mgrVars, runVars, callVars, histVars, reportVars, urlVars, optVars,
                   remote, bisecting, nops>>

\* tools.ts:59-67: sandbox_clone, up to its first await.
CloneToolBegin ==
    /\ ToolIdle
    /\ nops < MaxOps
    /\ nops' = nops + 1
    /\ IF ~isInitialized(mgr)
       THEN /\ op' = [NewOp("sandbox_clone", "none") EXCEPT !.pc = "init", !.called = FALSE]
            /\ remote' = <<>>
       ELSE /\ op' = [NewOp("sandbox_clone", "none") EXCEPT !.pc = "clone"]
            /\ remote' = <<cloneRepo(mgr).call>>
    /\ UNCHANGED <<cfgVars, mgrVars, runVars, callVars, histVars, reportVars, urlVars, optVars, bisecting>>

\* tools.ts:61-67: the lazy initialize returned.
CloneToolInit(outcome) ==
    /\ op.pc = "init"
    /\ outcome \in InitOutcomes(enablePlaywright)
    /\ mgr' = initialize(mgr, SandboxId, enablePlaywright, outcome)
    /\ IF outcome # "create_fails"
       THEN bisecting' = FALSE /\ clonedSince' = FALSE
       ELSE UNCHANGED <<bisecting, clonedSince>>
    /\ IF initialize_ok(outcome)
       THEN /\ op' = [op EXCEPT !.pc = "clone", !.handle = mgr'.sandbox, !.called = TRUE]
            /\ remote' = <<cloneRepo(mgr').call>>
       ELSE /\ op' = Finish(op, GenericError)
            /\ remote' = remote
    /\ UNCHANGED <<cfgVars, alive, created, runVars, callVars, reportVars, urlVars, optVars, nops,
                   killHandle, killFailed, cleanupsDone, abortPending>>

\* repo.ts:31-46 with tools.ts:68-71: the remote git clone ended.
CloneToolSettles(outcome) ==
    /\ op.pc = "clone"
    /\ mgr' = cloneRepo_finish(mgr, outcome)
    /\ clonedSince' = (clonedSince \/ outcome = "exit0")
    /\ op' = Finish([op EXCEPT !.last = outcome], cloneRepo_settle(outcome))
    /\ UNCHANGED <<cfgVars, alive, created, runVars, callVars, reportVars, urlVars, optVars,
                   remote, bisecting, nops,
                   killHandle, killFailed, cleanupsDone, abortPending>>

\* ---------------------------------------------------------- sandbox_edit
\* The file contents sandbox_edit meets: strings over EditChars of bounded
\* length.
MaxContent == 2
EditChars == {"a", "b"}
EditTexts == UNION {[1..n -> EditChars] : n \in 0..MaxContent}
\* The old_string arguments: the texts of one repeated character, which a
\* file's content may hold next to another one.
OldStrings == {t \in EditTexts : \A i \in 1..Len(t) : t[i] = "a"}

\* String.prototype.split(separator).length: an empty separator cuts the
\* text into its characters, any other one is searched left to right and
\* the search resumes after each match.
RECURSIVE splitMatches(_, _, _)
splitMatches(content, old_string, i) ==
    IF i + Len(old_string) - 1 > Len(content) THEN 0
    ELSE IF SubSeq(content, i, i + Len(old_string) - 1) = old_string
    THEN 1 + splitMatches(content, old_string, i + Len(old_string))
    ELSE splitMatches(content, old_string, i + 1)
splitLength(content, old_string) ==
    IF old_string = <<>> THEN Len(content)
    ELSE 1 + splitMatches(content, old_string, 1)

\* files.ts:15-21: only a read that resolved carries the file's text.
ReadTexts(outcome) == IF outcome = "resolved" THEN EditTexts ELSE {<<>>}

\* tools.ts:148
occurrences(content, old_string) == splitLength(content, old_string) - 1

\* tools.ts:141-142
EditBegin(path, old_string) ==
    /\ ToolIdle
    /\ nops < MaxOps
    /\ path \in ToolPaths("sandbox_edit")
    /\ nops' = nops + 1
    /\ LET s == readFile(mgr, path)
           o == [NewOp("sandbox_edit", path) EXCEPT !.edit.old_string = old_string]
       IN  IF s.issue
           THEN /\ op' = [o EXCEPT !.pc = "edit_read"]
                /\ remote' = <<s.call>>
           ELSE /\ op' = Finish(o, s.result)
                /\ remote' = <<>>
    /\ UNCHANGED <<cfgVars, mgrVars, runVars, callVars, histVars, reportVars, urlVars, optVars, bisecting>>

\* tools.ts:142-159: the read settles; when it resolved, content is the
\* file's text and old_string is counted in it.
EditReadSettles(outcome, content) ==
    /\ op.pc = "edit_read"
    /\ LET r == readFile_settle(outcome)
           s == writeFile(mgr, op.path)
           o == [op EXCEPT !.edit.read = TRUE, !.edit.content = content]
       IN  IF ~r.ok
           THEN op' = Finish(op, r) /\ remote' = remote
           ELSE IF occurrences(content, op.edit.old_string) = 0
                   \/ occurrences(content, op.edit.old_string) > 1
           THEN /\ op' = [o EXCEPT !.pc = "done", !.result = r,
                                   !.envelope = Envelope(TRUE)]
                /\ remote' = remote
           ELSE IF s.issue
           THEN /\ op' = [o EXCEPT !.pc = "edit_write"]
                /\ remote' = Append(remote, s.call)
           ELSE op' = Finish(o, s.result) /\ remote' = remote
    /\ UNCHANGED <<cfgVars, mgrVars, runVars, callVars, histVars, reportVars, urlVars, optVars,
                   bisecting, nops>>

\* tools.ts:159-164
EditWriteSettles(outcome) ==
    /\ op.pc = "edit_write"
    /\ op' = Finish(op, writeFile_settle(outcome))
    /\ UNCHANGED <<cfgVars, mgrVars, runVars, callVars, histVars, reportVars, urlVars, optVars,
                   remote, bisecting, nops>>

\* -------------------------------------------------------- sandbox_browser
\* executeBrowserActions, up to the await of writeFile.
BrowserBegin ==
    /\ ToolIdle
    /\ nops < MaxOps
    /\ nops' = nops + 1
    /\ IF ~isInitialized(mgr)
       THEN /\ op' = Finish(NewOp("sandbox_browser", "none"), NotInitialized)
            /\ remote' = <<>>
       ELSE /\ op' = [NewOp("sandbox_browser", "none") EXCEPT !.pc = "browser_write"]
            /\ remote' = <<writeFile(mgr, "abs").call>>
    /\ UNCHANGED <<cfgVars, mgrVars, runVars, callVars, histVars, reportVars, urlVars, optVars, bisecting>>

\* executeBrowserActions: the script was written (or not); the script is run.
BrowserWriteSettles(outcome) ==
    /\ op.pc = "browser_write"
    /\ LET w == writeFile_settle(outcome)
           s == runCommand(mgr, "tmp")
       IN  IF ~w.ok THEN op' = Finish(op, w) /\ remote' = remote
           ELSE IF s.issue
           THEN /\ op' = [op EXCEPT !.pc = "browser_exec"]
                /\ remote' = Append(remote, s.call)
           ELSE op' = Finish(op, s.result) /\ remote' = remote
    /\ UNCHANGED <<cfgVars, mgrVars, runVars, callVars, histVars, reportVars, urlVars, optVars,
                   bisecting, nops>>

\* executeBrowserActions: the script ended and its last output line is parsed;
\* the tool always asks for a screenshot, which is then fetched.
BrowserExecSettles(outcome, parse) ==
    /\ op.pc = "browser_exec"
    /\ LET e == runCommand_settle(outcome)
           s == runCommand(mgr, "none")
       IN  IF ~e.ok THEN op' = Finish(op, e) /\ remote' = remote
           ELSE IF parse = "unparsable"
           THEN /\ op' = Finish(op, Ok([NoValue EXCEPT !.success = FALSE]))
                /\ remote' = remote
           ELSE IF s.issue
           THEN /\ op' = [op EXCEPT !.pc = "browser_shot",
                             !.pending = Ok([NoValue EXCEPT !.success = (parse = "success")])]
                /\ remote' = Append(remote, s.call)
           ELSE /\ op' = Finish(op, Ok([NoValue EXCEPT !.success = (parse = "success")]))
                /\ remote' = remote
    /\ UNCHANGED <<cfgVars, mgrVars, runVars, callVars, histVars, reportVars, urlVars, optVars,
                   bisecting, nops>>

\* executeBrowserActions: the screenshot command ended; a failure is ignored.
BrowserShotSettles(outcome, nonempty) ==
    /\ op.pc = "browser_shot"
    /\ op' = Finish(op, Ok([op.pending.value EXCEPT
                               !.screenshot = (runCommand_settle(outcome).ok /\ nonempty)]))
    /\ UNCHANGED <<cfgVars, mgrVars, runVars, callVars, histVars, reportVars, urlVars, optVars,
                   remote, bisecting, nops>>

\* --------------------------------------------------------- sandbox_bisect
\* gitBisectReset is called and awaited with pendingResult about to be returned.
IssueReset(o, pendingResult) ==
    LET s == gitBisectReset(mgr)
    IN  IF s.issue
        THEN /\ op' = [o EXCEPT !.pc = "bisect_reset", !.pending = pendingResult]
             /\ remote' = Append(remote, s.call)
        ELSE /\ op' = Finish(o, afterReset(pendingResult, s.result))
             /\ remote' = remote

\* Faulty variant: the loop runs while steps <= maxSteps.
LoopHead_inclusive(o) ==
    IF o.steps <= o.maxSteps
    THEN /\ op' = [o EXCEPT !.steps = o.steps + 1, !.pc = "bisect_test"]
         /\ remote' = Append(remote, RemoteCall("commands.run", "bisect_test",
                                                repoDir(mgr), TRUE))
    ELSE IssueReset(o, Ok([NoValue EXCEPT !.stepsCount = o.steps]))

\* repo.ts:253-261, 288-296: the head of the loop, and its exit at the ceiling.
LoopHead(o) ==
    IF o.steps < o.maxSteps
    THEN /\ op' = [o EXCEPT !.steps = o.steps + 1, !.pc = "bisect_test"]
         /\ remote' = Append(remote, RemoteCall("commands.run", "bisect_test",
                                                repoDir(mgr), TRUE))
    ELSE IssueReset(o, Ok([NoValue EXCEPT !.stepsCount = o.steps]))

\* repo.ts:237: options.maxSteps ?? 20
DefaultMaxSteps == 20
maxStepsOf(given, maxSteps) == IF given THEN maxSteps ELSE DefaultMaxSteps
\* The values of the maxSteps option, when it is given (tools.ts:254: any number).
MaxStepsOptions(given) == IF given THEN (-1)..MaxBisectSteps ELSE {DefaultMaxSteps}

\* tools.ts:256-257 with repo.ts:234-243
BisectBegin(given, maxSteps) ==
    /\ ToolIdle
    /\ nops < MaxOps
    /\ nops' = nops + 1
    /\ LET o == [NewOp("sandbox_bisect", "none") EXCEPT
                   !.maxSteps = maxStepsOf(given, maxSteps), !.maxStepsGiven = given]
           s == gitBisectStart(mgr)
       IN  IF s.issue
           THEN /\ op' = [o EXCEPT !.pc = "bisect_start"]
                /\ remote' = <<s.call>>
           ELSE /\ op' = Finish(o, NotInitialized)
                /\ remote' = <<>>
    /\ UNCHANGED <<cfgVars, mgrVars, runVars, callVars, histVars, reportVars, urlVars, optVars, bisecting>>

\* repo.ts:134-147 with 243-253: the start command ended.  "midway": it
\* failed after `git bisect start` had begun the bisection.
BisectStartSettles(outcome) ==
    /\ op.pc = "bisect_start"
    /\ bisecting' = (bisecting \/ outcome \in {"bisecting", "midway"})
    /\ IF outcome = "bisecting"
       THEN LoopHead([op EXCEPT !.last = outcome])
       ELSE op' = Finish([op EXCEPT !.last = outcome], GenericError) /\ remote' = remote
    /\ UNCHANGED <<cfgVars, mgrVars, runVars, callVars, histVars, reportVars, urlVars, optVars, nops>>

\* repo.ts:258-267 with 297-299: the test command ended.
BisectTestSettles(outcome) ==
    /\ op.pc = "bisect_test"
    /\ LET s == gitBisectMark(mgr)
           o == [op EXCEPT !.mark = IF outcome = "exit0" THEN "good" ELSE "bad",
                           !.last = outcome]
       IN  IF outcome = "error"
           THEN IssueReset([op EXCEPT !.last = outcome], GenericError)
           ELSE IF s.issue
           THEN /\ op' = [o EXCEPT !.pc = "bisect_mark"]
                /\ remote' = Append(remote, s.call)
           ELSE IssueReset(o, s.result)
    /\ UNCHANGED <<cfgVars, mgrVars, runVars, callVars, histVars, reportVars, urlVars, optVars,
                   bisecting, nops>>

\* repo.ts:163-173, 190-198 with 267-271, 285: the mark command ended.
BisectMarkSettles(outcome) ==
    /\ op.pc = "bisect_mark"
    /\ CASE outcome = "error" -> IssueReset([op EXCEPT !.last = outcome], GenericError)
         [] outcome = "first_bad" ->
               /\ op' = [op EXCEPT !.pc = "bisect_log", !.last = outcome]
               /\ remote' = Append(remote, RemoteCall("commands.run", "bisect_log",
                                                      repoDir(mgr), TRUE))
         [] OTHER -> LoopHead([op EXCEPT !.last = outcome])
    /\ UNCHANGED <<cfgVars, mgrVars, runVars, callVars, histVars, reportVars, urlVars, optVars,
                   bisecting, nops>>

\* repo.ts:173-187, 196-198 with 267-283: the commit details were fetched.
BisectLogSettles(outcome) ==
    /\ op.pc = "bisect_log"
    /\ IF outcome = "error"
       THEN IssueReset([op EXCEPT !.last = outcome], GenericError)
       ELSE IssueReset([op EXCEPT !.last = outcome], Ok([NoValue EXCEPT !.found = TRUE,
                                              !.hasCommit = (outcome = "commit"),
                                              !.stepsCount = op.steps]))
    /\ UNCHANGED <<cfgVars, mgrVars, runVars, callVars, histVars, reportVars, urlVars, optVars,
                   bisecting, nops>>

\* repo.ts:212-221: the reset command ended, and gitBisectRun returns.
BisectResetSettles(outcome) ==
    /\ op.pc = "bisect_reset"
    /\ bisecting' = IF outcome = "exit0" THEN FALSE ELSE bisecting
    /\ op' = Finish([op EXCEPT !.resetOk = (outcome = "exit0"), !.last = outcome],
                    afterReset(op.pending, gitBisectReset_settle(outcome)))
    /\ UNCHANGED <<cfgVars, mgrVars, runVars, callVars, histVars, reportVars, urlVars, optVars,
                   remote, nops>>

NextTools ==
    \/ \E outcome \in {"create_fails", "created", "token_throws",
                       "token_undefined", "token_value"} : OwnerInitialize(outcome)
    \/ \E killOk \in BOOLEAN : OwnerCleanup(killOk)
    \/ \E tool \in SingleTools, path \in PathArgs : ToolBegin(tool, path)
    \/ \E outcome \in FileOutcomes \cup RunOutcomes : ToolSettles(outcome)
    \/ GitLogInvalidDate
    \/ UrlTool
    \/ AskTool
    \/ \E how \in {"resolved", "rejected"} : AskToolSettles(how)
    \/ CloneToolBegin
    \/ \E outcome \in {"create_fails", "created", "token_throws",
                       "token_undefined", "token_value"} : CloneToolInit(outcome)
    \/ \E outcome \in CloneOutcomes : CloneToolSettles(outcome)
    \/ \E path \in PathArgs, old_string \in OldStrings : EditBegin(path, old_string)
    \/ \E outcome \in FileOutcomes :
           \E content \in ReadTexts(outcome) : EditReadSettles(outcome, content)
    \/ \E outcome \in FileOutcomes : EditWriteSettles(outcome)
    \/ BrowserBegin
    \/ \E outcome \in FileOutcomes : BrowserWriteSettles(outcome)
    \/ \E outcome \in RunOutcomes, parse \in {"unparsable", "success", "failure"} :
           BrowserExecSettles(outcome, parse)
    \/ \E outcome \in RunOutcomes, nonempty \in BOOLEAN : BrowserShotSettles(outcome, nonempty)
    \/ \E given \in BOOLEAN : \E maxSteps \in MaxStepsOptions(given) : BisectBegin(given, maxSteps)
    \/ \E outcome \in {"bisecting", "failed", "midway", "error"} : BisectStartSettles(outcome)
    \/ \E outcome \in {"exit0", "nonzero", "error"} : BisectTestSettles(outcome)
    \/ \E outcome \in {"next", "first_bad", "error"} : BisectMarkSettles(outcome)
    \/ \E outcome \in {"commit", "empty", "error"} : BisectLogSettles(outcome)
    \/ \E outcome \in {"exit0", "nonzero", "error"} : BisectResetSettles(outcome)

InitTooling == Init /\ host = "catalogue"

SpecTools == InitTooling /\ [][NextTools]_vars

\* ------------------------------------------------ sandbox_bisect on its own
\* A remote call of gitBisectRun ends: every commands.run it awaits carries a
\* timeoutMs (repo.ts:134, 163, 173, 212, 259-260), so each one resolves or
\* rejects.
BisectStep ==
    \/ \E outcome \in {"bisecting", "failed", "midway", "error"} : BisectStartSettles(outcome)
    \/ \E outcome \in {"exit0", "nonzero", "error"} : BisectTestSettles(outcome)
    \/ \E outcome \in {"next", "first_bad", "error"} : BisectMarkSettles(outcome)
    \/ \E outcome \in {"commit", "empty", "error"} : BisectLogSettles(outcome)
    \/ \E outcome \in {"exit0", "nonzero", "error"} : BisectResetSettles(outcome)

NextBisect ==
    \/ \E outcome \in {"create_fails", "created", "token_throws",
                       "token_undefined", "token_value"} : OwnerInitialize(outcome)
    \/ \E killOk \in BOOLEAN : OwnerCleanup(killOk)
    \/ \E given \in BOOLEAN : \E maxSteps \in MaxStepsOptions(given) : BisectBegin(given, maxSteps)
    \/ BisectStep

SpecBisect == InitTooling /\ [][NextBisect]_vars /\ WF_vars(BisectStep)

\* ============================================================ the report
\* report.ts.  A text is a sequence of characters.  The result texts handed
\* to buildReport are built from a status object written the way the agent
\* is told to write it, wrapped in a fenced block or not, after some prose
\* or not; and from texts that hold no object at all.

\* resultText.slice(0, 500)
PreviewLimit == 500
\* Longest run of prose in front of the status object.
MaxProse == 1
\* How far an unstructured text goes beyond the preview's length.
MaxOverflow == 2

Quote == "\""
\* The backtick character, which a string of this language cannot hold.
Backtick == "BACKTICK"
Fence == <<Backtick, Backtick, Backtick>>
JsonTag == <<"j", "s", "o", "n">>
IsSpace(c) == c \in {" ", "\n"}

Keys == {"status", "summary", "reproduced", "rootCause", "filesChanged",
         "fixDescription", "fixingCommit", "remainingWork", "blockers", "error"}
StatusTags == {"solved", "already_fixed", "partial", "needs_human", "failed"}

\* The spelling of the words that occur in a status object.
Spell(w) ==
    CASE w = "status" -> <<"s", "t", "a", "t", "u", "s">>
      [] w = "summary" -> <<"s", "u", "m", "m", "a", "r", "y">>
      [] w = "reproduced" -> <<"r", "e", "p", "r", "o", "d", "u", "c", "e", "d">>
      [] w = "rootCause" -> <<"r", "o", "o", "t", "C", "a", "u", "s", "e">>
      [] w = "filesChanged" -> <<"f", "i", "l", "e", "s", "C", "h", "a", "n", "g", "e", "d">>
      [] w = "fixDescription" -> <<"f", "i", "x", "D", "e", "s", "c", "r", "i", "p", "t", "i", "o", "n">>
      [] w = "fixingCommit" -> <<"f", "i", "x", "i", "n", "g", "C", "o", "m", "m", "i", "t">>
      [] w = "remainingWork" -> <<"r", "e", "m", "a", "i", "n", "i", "n", "g", "W", "o", "r", "k">>
      [] w = "blockers" -> <<"b", "l", "o", "c", "k", "e", "r", "s">>
      [] w = "error" -> <<"e", "r", "r", "o", "r">>
      [] w = "solved" -> <<"s", "o", "l", "v", "e", "d">>
      [] w = "already_fixed" -> <<"a", "l", "r", "e", "a", "d", "y", "_", "f", "i", "x", "e", "d">>
      [] w = "partial" -> <<"p", "a", "r", "t", "i", "a", "l">>
      [] w = "needs_human" -> <<"n", "e", "e", "d", "s", "_", "h", "u", "m", "a", "n">>
      [] w = "failed" -> <<"f", "a", "i", "l", "e", "d">>
      [] w = "true" -> <<"t", "r", "u", "e">>
      [] w = "false" -> <<"f", "a", "l", "s", "e">>
      [] OTHER -> <<"b", "o", "g", "u", "s">>

\* ------------------------------------------------------------ JSON values
Absent == [kind |-> "absent", str |-> <<>>, flag |-> FALSE, arr |-> <<>>]
Str(chars) == [kind |-> "string", str |-> chars, flag |-> FALSE, arr |-> <<>>]
Bool(b) == [kind |-> "boolean", str |-> <<>>, flag |-> b, arr |-> <<>>]
Arr(strings) == [kind |-> "array", str |-> <<>>, flag |-> FALSE, arr |-> strings]
EmptyObject == [k \in Keys |-> Absent]

MatchAt(t, i, pat) ==
    /\ i >= 1
    /\ i + Len(pat) - 1 <= Len(t)
    /\ SubSeq(t, i, i + Len(pat) - 1) = pat
Least(S) == CHOOSE i \in S : \A j \in S : i <= j

\* The first position from i on that holds no white space (Len(t) + 1: none).
SkipSpace(t, i) ==
    CHOOSE k \in i..(Len(t) + 1) :
        /\ k = Len(t) + 1 \/ ~IsSpace(t[k])
        /\ \A j \in i..(k - 1) : IsSpace(t[j])
\* t without the white space at its two ends.
Trim(t) ==
    IF \A k \in 1..Len(t) : IsSpace(t[k]) THEN <<>>
    ELSE SubSeq(t, CHOOSE a \in 1..Len(t) :
                       ~IsSpace(t[a]) /\ \A j \in 1..(a - 1) : IsSpace(t[j]),
                   CHOOSE z \in 1..Len(t) :
                       ~IsSpace(t[z]) /\ \A j \in (z + 1)..Len(t) : IsSpace(t[j]))

\* The key a member name stands for; a name the report does not know is kept
\* by JSON.parse and never read.
KeyOf(chars) ==
    IF \E k \in Keys : Spell(k) = chars
    THEN CHOOSE k \in Keys : Spell(k) = chars
    ELSE "other"

\* JSON.parse reads the text one character at a time.  The reader's state:
\* what it expects next, where the string it is inside began, the member
\* name it last read, the elements of the array it is inside, and the
\* object so far.
Reader(mode, from, key, arr, obj) ==
    [mode |-> mode, from |-> from, key |-> key, arr |-> arr, obj |-> obj]
Put(obj, key, value) == IF key = "other" THEN obj ELSE [obj EXCEPT ![key] = value]
Stop == [ok |-> FALSE, next |-> 0, st |-> Reader("fail", 0, "other", <<>>, EmptyObject)]
Go(i, st) == [ok |-> TRUE, next |-> i, st |-> st]

\* One step of the reader at position i.
Read(t, i, r) ==
    LET c == t[i]
    IN  CASE r.mode = "start" ->
               IF IsSpace(c) THEN Go(i + 1, r)
               ELSE IF c = "{" THEN Go(i + 1, [r EXCEPT !.mode = "first"])
               ELSE Stop
          [] r.mode \in {"first", "name"} ->
               IF IsSpace(c) THEN Go(i + 1, r)
               ELSE IF c = "}" /\ r.mode = "first" THEN Go(i + 1, [r EXCEPT !.mode = "end"])
               ELSE IF c = Quote THEN Go(i + 1, [r EXCEPT !.mode = "key", !.from = i + 1])
               ELSE Stop
          [] r.mode = "key" ->
               IF c = Quote
               THEN Go(i + 1, [r EXCEPT !.mode = "colon",
                                        !.key = KeyOf(SubSeq(t, r.from, i - 1))])
               ELSE Go(i + 1, r)
          [] r.mode = "colon" ->
               IF IsSpace(c) THEN Go(i + 1, r)
               ELSE IF c = ":" THEN Go(i + 1, [r EXCEPT !.mode = "value"])
               ELSE Stop
          [] r.mode = "value" ->
               IF IsSpace(c) THEN Go(i + 1, r)
               ELSE IF c = Quote THEN Go(i + 1, [r EXCEPT !.mode = "string", !.from = i + 1])
               ELSE IF c = "[" THEN Go(i + 1, [r EXCEPT !.mode = "array", !.arr = <<>>])
               ELSE IF MatchAt(t, i, Spell("true"))
               THEN Go(i + 4, [r EXCEPT !.mode = "after", !.obj = Put(r.obj, r.key, Bool(TRUE))])
               ELSE IF MatchAt(t, i, Spell("false"))
               THEN Go(i + 5, [r EXCEPT !.mode = "after", !.obj = Put(r.obj, r.key, Bool(FALSE))])
               ELSE Stop
          [] r.mode = "string" ->
               IF c = Quote
               THEN Go(i + 1, [r EXCEPT !.mode = "after",
                                        !.obj = Put(r.obj, r.key, Str(SubSeq(t, r.from, i - 1)))])
               ELSE Go(i + 1, r)
          [] r.mode \in {"array", "element"} ->
               IF IsSpace(c) THEN Go(i + 1, r)
               ELSE IF c = "]" /\ r.mode = "array"
               THEN Go(i + 1, [r EXCEPT !.mode = "after", !.obj = Put(r.obj, r.key, Arr(<<>>))])
               ELSE IF c = Quote THEN Go(i + 1, [r EXCEPT !.mode = "item", !.from = i + 1])
               ELSE Stop
          [] r.mode = "item" ->
               IF c = Quote
               THEN Go(i + 1, [r EXCEPT !.mode = "item_end",
                                        !.arr = Append(r.arr, SubSeq(t, r.from, i - 1))])
               ELSE Go(i + 1, r)
          [] r.mode = "item_end" ->
               IF IsSpace(c) THEN Go(i + 1, r)
               ELSE IF c = "," THEN Go(i + 1, [r EXCEPT !.mode = "element"])
               ELSE IF c = "]"
               THEN Go(i + 1, [r EXCEPT !.mode = "after", !.obj = Put(r.obj, r.key, Arr(r.arr))])
               ELSE Stop
          [] r.mode = "after" ->
               IF IsSpace(c) THEN Go(i + 1, r)
               ELSE IF c = "," THEN Go(i + 1, [r EXCEPT !.mode = "name"])
               ELSE IF c = "}" THEN Go(i + 1, [r EXCEPT !.mode = "end"])
               ELSE Stop
          [] r.mode = "end" -> IF IsSpace(c) THEN Go(i + 1, r) ELSE Stop
          [] OTHER -> Stop

\* One more step of the reader, unless it has stopped or reached the end.
ReadOn(t, g) == IF ~g.ok \/ g.next > Len(t) THEN g ELSE Read(t, g.next, g.st)

\* n steps of the reader, taken half by half; a reader that has stopped
\* stays stopped.
RECURSIVE ReadSteps(_, _, _)
ReadSteps(t, g, n) ==
    IF n = 0 THEN g
    ELSE IF n = 1 THEN ReadOn(t, g)
    ELSE LET half == ReadSteps(t, g, n \div 2)
         IN  IF half.ok THEN ReadSteps(t, half, n - (n \div 2)) ELSE half

\* The reader run from g to the end of the text: every step moves on by one
\* character at least, so Len(t) steps reach the end.
ReadFrom(t, g) ==
    LET e == ReadSteps(t, g, Len(t))
    IN  IF ~e.ok THEN [ok |-> FALSE, obj |-> EmptyObject]
        ELSE [ok |-> e.st.mode = "end", obj |-> e.st.obj]

\* JSON.parse of a text that is to hold one object whose members are strings,
\* booleans and arrays of strings with no escapes (the result texts below hold
\* no other JSON value); ok = FALSE stands for the SyntaxError it throws.
JSONparse(t) == ReadFrom(t, Go(1, Reader("start", 0, "other", <<>>, EmptyObject)))

\* ------------------------------------------------- parseStructuredReport
NoGroup == [usable |-> FALSE, text |-> <<>>]
Group(text) == [usable |-> text # <<>>, text |-> text]

\* report.ts:23-24: the group captured by the json-tagged fenced block.
jsonBlockMatch(t) ==
    LET S == {i \in 1..Len(t) : /\ MatchAt(t, i, Fence \o JsonTag)
                                 /\ \E j \in (i + 7)..Len(t) : MatchAt(t, j, Fence)}
    IN  IF S = {} THEN NoGroup
        ELSE Group(Trim(SubSeq(t, Least(S) + 7,
                               Least({k \in (Least(S) + 7)..Len(t) : MatchAt(t, k, Fence)}) - 1)))

\* report.ts:33-34: the group captured by the untagged fenced block.
codeBlockMatch(t) ==
    LET S == {i \in 1..Len(t) : /\ MatchAt(t, i, Fence)
                                 /\ \E j \in (i + 3)..Len(t) : MatchAt(t, j, Fence)}
    IN  IF S = {} THEN NoGroup
        ELSE Group(Trim(SubSeq(t, Least(S) + 3,
                               Least({k \in (Least(S) + 3)..Len(t) : MatchAt(t, k, Fence)}) - 1)))

\* "status"\s*:\s*"[^"]+" matches at position k.
StatusPairAt(t, k) ==
    /\ MatchAt(t, k, <<Quote>> \o Spell("status") \o <<Quote>>)
    /\ \E colon \in (k + 8)..Len(t), open \in (k + 9)..(Len(t) - 1) :
          /\ t[colon] = ":" /\ colon < open
          /\ \A j \in ((k + 8)..(open - 1)) \ {colon} : IsSpace(t[j])
          /\ t[open] = Quote /\ t[open + 1] # Quote
          /\ \E c \in (open + 2)..Len(t) : t[c] = Quote

\* report.ts:46-48: where the match of /\{[\s\S]*"status"\s*:\s*"[^"]+"/
\* starts (0: no match), which is what text.indexOf(match[0]) returns.
jsonObjectMatch(t) ==
    LET S == {i \in 1..Len(t) : /\ t[i] = "{"
                                 /\ \E k \in (i + 1)..Len(t) : StatusPairAt(t, k)}
    IN  IF S = {} THEN 0 ELSE Least(S)

\* report.ts:49-59: braceCount after the characters from startIdx to i.
braceCount(t, startIdx, i) ==
    Cardinality({k \in startIdx..i : t[k] = "{"})
      - Cardinality({k \in startIdx..i : t[k] = "}"})

\* Faulty variant: the object ends at the first closing brace.
endIdx_firstClose(t, startIdx) ==
    IF \A i \in startIdx..Len(t) : t[i] # "}" THEN startIdx - 1
    ELSE Least({i \in startIdx..Len(t) : t[i] = "}"})

\* report.ts:49-59: the last position of the slice (startIdx - 1: the count
\* never came back to zero, and endIdx stayed at startIdx).
endIdx(t, startIdx) ==
    IF \A i \in startIdx..Len(t) : braceCount(t, startIdx, i) # 0 THEN startIdx - 1
    ELSE Least({i \in startIdx..Len(t) : braceCount(t, startIdx, i) = 0})

\* report.ts:46-61: the slice of the text handed to JSON.parse.
rawSlice(t, startIdx) ==
    IF startIdx = 0 THEN NoGroup
    ELSE Group(SubSeq(t, startIdx, endIdx(t, startIdx)))

NoParsed == [found |-> FALSE, obj |-> EmptyObject]
Parsed(obj) == [found |-> TRUE, obj |-> obj]

\* The three formats in the order they are tried, and whether the parsed
\* value is returned only when it has a status member.
Candidates(t) == <<jsonBlockMatch(t), codeBlockMatch(t), rawSlice(t, jsonObjectMatch(t))>>
NeedsStatus(format) == format = 2

\* report.ts:21-71: the first format whose text parses is returned.
FirstParsed(results) ==
    IF \A f \in 1..3 : ~results[f].ok THEN NoParsed
    ELSE Parsed(results[Least({f \in 1..3 : results[f].ok})].obj)
TryFormats(candidates) ==
    FirstParsed([f \in 1..3 |->
        IF ~candidates[f].usable THEN [ok |-> FALSE, obj |-> EmptyObject]
        ELSE [ok |-> /\ JSONparse(candidates[f].text).ok
                     /\ NeedsStatus(f) =>
                          JSONparse(candidates[f].text).obj["status"].kind # "absent",
              obj |-> JSONparse(candidates[f].text).obj]])
parseStructuredReport(t) == TryFormats(Candidates(t))

\* ------------------------------------------------- buildStatusFromParsed
\* The extra field of each status variant and the default it gets.
ExtraField(tag) ==
    CASE tag = "solved" -> "fixDescription"
      [] tag = "already_fixed" -> "fixingCommit"
      [] tag = "partial" -> "remainingWork"
      [] tag = "needs_human" -> "blockers"
      [] OTHER -> "error"
DefaultExtra(tag) ==
    CASE tag = "solved" -> Str(<<"F", "i", "x", " ", "a", "p", "p", "l", "i", "e", "d">>)
      [] tag = "already_fixed" -> Str(<<"u", "n", "k", "n", "o", "w", "n">>)
      [] tag = "partial" -> Str(<<"A", "d", "d", "i", "t", "i", "o", "n", "a", "l", " ", "w", "o", "r", "k", " ", "n", "e", "e", "d", "e", "d">>)
      [] tag = "needs_human" -> Arr(<<<<"H", "u", "m", "a", "n", " ", "r", "e", "v", "i", "e", "w", " ", "r", "e", "q", "u", "i", "r", "e", "d">>>>)
      [] OTHER -> Str(<<"A", "g", "e", "n", "t", " ", "f", "a", "i", "l", "e", "d">>)

\* Faulty variant: a || b, which also replaces the empty string.
OrElse_falsy(v, d) == IF v.kind = "absent" \/ v = Str(<<>>) THEN d ELSE v

\* a ?? b
OrElse(v, d) == IF v.kind = "absent" THEN d ELSE v

Undefined == [defined |-> FALSE, type |-> "none", summary |-> Absent,
              field |-> "none", extra |-> Absent]
Status(type, summary, extra) ==
    [defined |-> TRUE, type |-> type, summary |-> summary,
     field |-> ExtraField(type), extra |-> extra]

\* report.ts:125-158: the switch has no default case.
buildStatusFromParsed(parsed) ==
    IF \E tag \in StatusTags : parsed["status"] = Str(Spell(tag))
    THEN LET tag == CHOOSE tag \in StatusTags : parsed["status"] = Str(Spell(tag))
         IN  Status(tag, parsed["summary"],
                    OrElse(parsed[ExtraField(tag)], DefaultExtra(tag)))
    ELSE Undefined

\* resultText.slice(0, 500)
Preview(t) == SubSeq(t, 1, IF Len(t) < PreviewLimit THEN Len(t) ELSE PreviewLimit)

\* Faulty variant: the fallback keeps the whole text as its summary.
fallbackStatus_untruncated(t, isError) ==
    IF isError
    THEN Status("failed", Str(t), Str(<<"A", "g", "e", "n", "t", " ", "e", "r", "r", "o", "r">>))
    ELSE Status("needs_human", Str(t),
                Arr(<<<<"C", "o", "u", "l", "d", " ", "n", "o", "t", " ", "p", "a", "r", "s", "e", " ", "s", "t", "r", "u", "c", "t", "u", "r", "e", "d", " ", "o", "u", "t", "p", "u", "t">>>>))

\* report.ts:106-108
fallbackStatus(t, isError) ==
    IF isError
    THEN Status("failed", Str(Preview(t)), Str(<<"A", "g", "e", "n", "t", " ", "e", "r", "r", "o", "r">>))
    ELSE Status("needs_human", Str(Preview(t)),
                Arr(<<<<"C", "o", "u", "l", "d", " ", "n", "o", "t", " ", "p", "a", "r", "s", "e", " ", "s", "t", "r", "u", "c", "t", "u", "r", "e", "d", " ", "o", "u", "t", "p", "u", "t">>>>))

\* report.ts:82-123: what buildReport derives from the result message.
reportFrom(resultText, errorFlag, extracted) ==
    IF extracted.found
    THEN [built |-> TRUE, structured |-> TRUE,
          status |-> buildStatusFromParsed(extracted.obj),
          reproduced |-> extracted.obj["reproduced"],
          rootCause |-> extracted.obj["rootCause"],
          analysis |-> resultText,
          changes |-> OrElse(extracted.obj["filesChanged"], Arr(<<>>)).arr]
    ELSE [built |-> TRUE, structured |-> FALSE,
          status |-> fallbackStatus(resultText, errorFlag),
          reproduced |-> Bool(FALSE),
          rootCause |-> Absent,
          analysis |-> resultText,
          changes |-> <<>>]
resultTextOf(msg) == IF msg.present /\ msg.hasResult THEN msg.text ELSE <<>>
reportContent(msg) ==
    reportFrom(resultTextOf(msg), msg.present /\ msg.is_error,
               parseStructuredReport(resultTextOf(msg)))

\* ------------------------------------------------------ the result texts
\* A status object as the agent writes it.
SummaryKinds == {"absent", "plain", "balanced", "unbalanced"}
SummaryText(kind) ==
    CASE kind = "plain" -> <<"o", "k">>
      [] kind = "balanced" -> <<"a", "{", "b", "}">>
      [] kind = "unbalanced" -> <<"}", "{">>
      [] OTHER -> <<>>
ObjectSpecs ==
    [status : StatusTags \cup {"absent", "bogus"},
     summary : SummaryKinds,
     extra : {"absent", "empty", "given"},
     full : BOOLEAN]

Member(name, valueText) == <<Quote>> \o Spell(name) \o <<Quote, ":">> \o valueText
Quoted(chars) == <<Quote>> \o chars \o <<Quote>>
RECURSIVE Join(_)
Join(members) ==
    IF members = <<>> THEN <<>>
    ELSE IF Len(members) = 1 THEN members[1]
    ELSE members[1] \o <<",">> \o Join(Tail(members))

ExtraText(o) ==
    LET field == ExtraField(o.status)
    IN  IF field = "blockers"
        THEN (IF o.extra = "empty" THEN <<"[", "]">> ELSE <<"[">> \o Quoted(<<"b">>) \o <<"]">>)
        ELSE Quoted(IF o.extra = "empty" THEN <<>> ELSE <<"v">>)

\* JSON.stringify of the object.
Render(o) ==
    <<"{">> \o
    Join(  (IF o.status = "absent" THEN <<>>
            ELSE <<Member("status", Quoted(Spell(o.status)))>>)
        \o (IF o.summary = "absent" THEN <<>>
            ELSE <<Member("summary", Quoted(SummaryText(o.summary)))>>)
        \o <<Member("reproduced", Spell(IF o.full THEN "true" ELSE "false"))>>
        \o (IF o.full THEN <<Member("rootCause", Quoted(<<"r">>)),
                             Member("filesChanged", <<"[">> \o Quoted(<<"f">>) \o <<"]">>)>>
            ELSE <<>>)
        \o (IF o.extra = "absent" THEN <<>>
            ELSE <<Member(ExtraField(o.status), ExtraText(o))>>) ) \o
    <<"}">>

Wrappers == {"raw", "json_block", "code_block"}
Wrap(w, t) ==
    CASE w = "json_block" -> Fence \o JsonTag \o <<"\n">> \o t \o <<"\n">> \o Fence
      [] w = "code_block" -> Fence \o <<"\n">> \o t \o <<"\n">> \o Fence
      [] OTHER -> t

Filler(n) == [i \in 1..n |-> "x"]
Prose(n) == IF n = 0 THEN <<>> ELSE Filler(n) \o <<" ">>

\* A text that holds a status object, after n characters of prose.
StructuredText(n, w, o) == Prose(n) \o Wrap(w, Render(o))

\* The texts that hold none: empty, plain prose around the preview's length,
\* a brace that never closes, an object cut short, a block with no object.
UnstructuredKinds == {"filler", "open_brace", "cut_short", "prose_block"}
UnstructuredText(kind, n) ==
    CASE kind = "open_brace" -> <<"{", "x">>
      [] kind = "cut_short" -> <<"{">> \o Member("status", <<Quote>> \o Spell("solved"))
      [] kind = "prose_block" -> Fence \o JsonTag \o <<" ", "x", " ">> \o Fence
      [] OTHER -> Filler(n)
FillerLengths == {0, 1} \cup ((PreviewLimit - 1)..(PreviewLimit + MaxOverflow))

ResultMsg_of(text, isError) ==
    [present |-> TRUE, hasResult |-> TRUE, is_error |-> isError, text |-> text]

\* runner.ts:127-130: the run captured a result message whose text holds a
\* status object.
StructuredResult(n, w, o, isError) ==
    /\ ~resultMsg.present /\ ~built.built
    /\ resultMsg' = ResultMsg_of(StructuredText(n, w, o), isError)
    /\ UNCHANGED <<cfgVars, mgrVars, runVars, callVars, histVars, toolVars, urlVars, optVars, built>>

\* runner.ts:127-130: the run captured a result message whose text holds none.
UnstructuredResult(kind, n, isError) ==
    /\ ~resultMsg.present /\ ~built.built
    /\ resultMsg' = ResultMsg_of(UnstructuredText(kind, n), isError)
    /\ UNCHANGED <<cfgVars, mgrVars, runVars, callVars, histVars, toolVars, urlVars, optVars, built>>

\* runner.ts:127-130: the run captured an error result, which has no text.
ErrorResult ==
    /\ ~resultMsg.present /\ ~built.built
    /\ resultMsg' = [present |-> TRUE, hasResult |-> FALSE, is_error |-> TRUE,
                     text |-> <<>>]
    /\ UNCHANGED <<cfgVars, mgrVars, runVars, callVars, histVars, toolVars, urlVars, optVars, built>>

\* runner.ts:148 with report.ts:73-123: buildReport is called with the result
\* message the run captured, or with null.
BuildReport ==
    /\ ~built.built
    /\ built' = reportContent(resultMsg)
    /\ UNCHANGED <<cfgVars, mgrVars, runVars, callVars, histVars, toolVars, urlVars, optVars, resultMsg>>

InitReporting ==
    /\ InitRun /\ host = "runAgent" /\ hasSink /\ ~enablePlaywright
    /\ InitTools
    /\ InitReport
    /\ InitUrl
    /\ InitOptions

NextReport ==
    \/ \E n \in 0..MaxProse, w \in Wrappers, o \in ObjectSpecs, isError \in BOOLEAN :
           StructuredResult(n, w, o, isError)
    \/ \E kind \in UnstructuredKinds, n \in FillerLengths, isError \in BOOLEAN :
           UnstructuredResult(kind, n, isError)
    \/ ErrorResult
    \/ BuildReport

SpecReport == InitReporting /\ [][NextReport]_vars

\* ========================================================= parseIssueUrl
\* part_004:22-40.  The texts handed to parseIssueUrl are put together from
\* a scheme, a host, an owner, a repository, a section and the text of a
\* number, so that what the text stands for is known apart from the parse.

\* Largest issue number written into a URL.
MaxIssueNumber == 12

DigitChars == <<"0", "1", "2", "3", "4", "5", "6", "7", "8", "9">>
IsDigit(c) == \E d \in 1..10 : DigitChars[d] = c
DigitValue(c) == (CHOOSE d \in 1..10 : DigitChars[d] = c) - 1

\* String(n) of a natural number.
RECURSIVE Decimal(_)
Decimal(n) ==
    IF n < 10 THEN <<DigitChars[n + 1]>>
    ELSE Append(Decimal(n \div 10), DigitChars[(n % 10) + 1])

\* parseInt(digits, 10) of a text of digits.
RECURSIVE parseInt(_)
parseInt(digits) ==
    IF digits = <<>> THEN 0
    ELSE 10 * parseInt(SubSeq(digits, 1, Len(digits) - 1))
         + DigitValue(digits[Len(digits)])

\* branded.ts:12-17
createIssueNumber_ok(n) == n > 0
\* branded.ts:19-31 (createRepoOwner, createRepoName)
createRepoPart_ok(chars) == chars # <<>> /\ \A i \in 1..Len(chars) : chars[i] # "/"

HostText == <<"g", "i", "t", "h", "u", "b", ".", "c", "o", "m", "/">>
IssuesText == <<"/", "i", "s", "s", "u", "e", "s", "/">>

\* The first slash at or after position i (Len(t) + 1: none).
NextSlash(t, i) ==
    IF \A j \in i..Len(t) : t[j] # "/" THEN Len(t) + 1
    ELSE CHOOSE j \in i..Len(t) : t[j] = "/" /\ \A k \in i..(j - 1) : t[k] # "/"

\* The last digit of the run of digits that starts at position i (i - 1: none).
DigitsEnd(t, i) ==
    CHOOSE e \in (i - 1)..Len(t) :
        /\ \A k \in i..e : IsDigit(t[k])
        /\ e = Len(t) \/ ~IsDigit(t[e + 1])

\* ISSUE_URL_REGEX tried at position i: the three groups it captures.
NoMatch == [matched |-> FALSE, owner |-> <<>>, repo |-> <<>>, number |-> <<>>]
GroupsAt(t, i, ownerEnd, repoEnd) ==
    IF /\ MatchAt(t, i, HostText)
       /\ ownerEnd > i + 11 /\ ownerEnd <= Len(t)
       /\ repoEnd > ownerEnd + 1
       /\ MatchAt(t, repoEnd, IssuesText)
       /\ DigitsEnd(t, repoEnd + 8) >= repoEnd + 8
    THEN [matched |-> TRUE,
          owner |-> SubSeq(t, i + 11, ownerEnd - 1),
          repo |-> SubSeq(t, ownerEnd + 1, repoEnd - 1),
          number |-> SubSeq(t, repoEnd + 8, DigitsEnd(t, repoEnd + 8))]
    ELSE NoMatch
MatchFrom(t, i) == GroupsAt(t, i, NextSlash(t, i + 11), NextSlash(t, NextSlash(t, i + 11) + 1))

\* url.match(ISSUE_URL_REGEX): the leftmost position where the regex matches.
issueUrlMatch(t) ==
    IF \A i \in 1..Len(t) : ~MatchFrom(t, i).matched THEN NoMatch
    ELSE MatchFrom(t, Least({i \in 1..Len(t) : MatchFrom(t, i).matched}))

InvalidIssueUrl == [returned |-> TRUE, ok |-> FALSE, owner |-> <<>>, repo |-> <<>>,
                    issueNumber |-> 0]

\* part_004:28-39
parsedFrom(match) ==
    IF /\ match.matched
       /\ createRepoPart_ok(match.owner) /\ createRepoPart_ok(match.repo)
       /\ createIssueNumber_ok(parseInt(match.number))
    THEN [returned |-> TRUE, ok |-> TRUE, owner |-> match.owner, repo |-> match.repo,
          issueNumber |-> parseInt(match.number)]
    ELSE InvalidIssueUrl
parseIssueUrl(t) == parsedFrom(issueUrlMatch(t))

\* ------------------------------------------------------- the URL texts
Schemes == {<<>>, <<"h", "t", "t", "p", "s", ":", "/", "/">>}
Hosts == {<<"g", "i", "t", "h", "u", "b", ".", "c", "o", "m">>,
          <<"g", "i", "t", "h", "u", "b", "x", "c", "o", "m">>,
          <<"g", "i", "t", "l", "a", "b", ".", "c", "o", "m">>}
Owners == {<<>>, <<"o", "w">>}
Repos == {<<>>, <<"r">>}
Sections == {<<"i", "s", "s", "u", "e", "s">>, <<"p", "u", "l", "l">>}
\* The number's text: a natural number, nothing, or digits with a letter.
NumberTexts ==
    {Decimal(n) : n \in 0..MaxIssueNumber}
      \cup {<<>>, <<"7", "x">>, <<"x", "7">>}

UrlText(scheme, site, owner, repo, section, number) ==
    scheme \o site \o <<"/">> \o owner \o <<"/">> \o repo \o <<"/">> \o section
           \o <<"/">> \o number

\* The caller has a URL to parse.
ChooseUrl(scheme, site, owner, repo, section, number) ==
    /\ ~issueUrl.chosen
    /\ issueUrl' = [chosen |-> TRUE, host |-> site, owner |-> owner, repo |-> repo,
                    section |-> section, number |-> number,
                    text |-> UrlText(scheme, site, owner, repo, section, number)]
    /\ UNCHANGED <<cfgVars, mgrVars, runVars, callVars, histVars, toolVars, reportVars,
                   parsedUrl, optVars>>

\* parseIssueUrl(url) is called.
ParseUrl ==
    /\ issueUrl.chosen /\ ~parsedUrl.returned
    /\ parsedUrl' = parseIssueUrl(issueUrl.text)
    /\ UNCHANGED <<cfgVars, mgrVars, runVars, callVars, histVars, toolVars, reportVars,
                   issueUrl, optVars>>

InitUrls ==
    /\ InitRun /\ host = "runAgent" /\ hasSink /\ ~enablePlaywright
    /\ InitTools
    /\ InitReport
    /\ InitUrl
    /\ InitOptions

NextUrl ==
    \/ \E scheme \in Schemes, h \in Hosts, owner \in Owners, repo \in Repos,
          section \in Sections, number \in NumberTexts :
           ChooseUrl(scheme, h, owner, repo, section, number)
    \/ ParseUrl

SpecUrl == InitUrls /\ [][NextUrl]_vars

\* ===================================================== the message stream
\* runner.ts:110-133 on its own: a run whose stream yields every kind of
\* message, with every shape of tool_use_result payload, and no tool call.

\* Longest stream of this scenario.
MaxStream == 3

StreamMessages ==
    { SystemMsg,
      AssistantMsg(<<"thinking", "tool_use">>),
      AssistantMsg(<<"text">>),
      UserMsg(NoPayload),
      UserMsg(Payload(TRUE, FALSE, FALSE, FALSE)),
      UserMsg(Payload(TRUE, TRUE, TRUE, TRUE)),
      UserMsg(Payload(FALSE, FALSE, TRUE, FALSE)),
      UserMsg(Payload(FALSE, FALSE, FALSE, FALSE)),
      ResultMsg(1),
      ResultMsg(2) }

\* The stream yields one more message.
StreamYield(m) ==
    /\ Len(consumed) < MaxStream
    /\ StreamMessage(m)

InitStream ==
    /\ InitRun /\ host = "runAgent" /\ ~enablePlaywright
    /\ InitTools
    /\ InitReport
    /\ InitUrl
    /\ InitOptions

NextStream ==
    \/ RunStart
    \/ \E ok \in BOOLEAN : RunInitCreate(ok)
    \/ \E m \in StreamMessages : StreamYield(m)
    \/ StreamThrow
    \/ StreamClose
    \/ \E killOk \in BOOLEAN : RunKillDone(killOk)

SpecStream == InitStream /\ [][NextStream]_vars

\* ------------------------------------------------ the session's options
\* The same run under a configuration that sets a turn cap or none
\* (part_005:64: a positive integer, optional).

\* Largest turn cap of a configuration.
MaxTurnsCap == 2
TurnCaps == {NULL} \cup (1..MaxTurnsCap)

InitCapped ==
    /\ InitRun /\ host = "runAgent" /\ hasSink
    /\ InitTools
    /\ InitReport
    /\ InitUrl
    /\ maxTurns \in TurnCaps
    /\ queryOptions = NoOptions

NextCapped ==
    \/ RunStart
    \/ \E ok \in BOOLEAN : RunInitCreate(ok)
    \/ \E tok \in {"throws", "undefined", "value"} : RunInitToken(tok)
    \/ \E m \in Messages : StreamYield(m)
    \/ StreamThrow
    \/ StreamClose
    \/ \E killOk \in BOOLEAN : RunKillDone(killOk)

SpecOptions == InitCapped /\ [][NextCapped]_vars

\* ================================================================ claims
EventTypes(evs) == [i \in 1..Len(evs) |-> evs[i].type]
CountOf(evs, type) == Len(SelectSeq(evs, LAMBDA e : e.type = type))
Returned == host = "runAgent" /\ pc = "returned"

\* C1: on every exit path of runAgent, sandbox cleanup runs before runAgent
\* returns, so no remote sandbox the run created is still alive at the return
\* (a sandbox whose kill was attempted and failed is not held against it).
C1_CleanupOnEveryExit ==
    Returned =>
        /\ created > 0 => cleanupsDone >= 1
        /\ ~killFailed => alive = {}

\* C2: a run-level failure (initialize failed, or the stream threw) is surfaced
\* as exactly one error event and an err result, with no complete event and no
\* report; after a stream exception cleanup has still run.
C2_FailureSurfacedOnce ==
    /\ CountOf(events, "error") <= 1
    /\ (Returned /\ streamEnd # "closed") =>
          /\ CountOf(events, "error") = (IF hasSink THEN 1 ELSE 0)
          /\ result \in {"err_init", "err_stream"}
          /\ CountOf(events, "complete") = 0
          /\ report = NoReport
          /\ streamEnd = "threw" => (cleanupsDone >= 1 /\ mgr.sandbox = NULL)

\* C2's case: the stream threw after a tool call and its result were processed.
C2_Witness ==
    /\ Returned /\ hasSink /\ streamEnd = "threw"
    /\ CountOf(events, "tool_call") = 1
    /\ CountOf(events, "tool_result") = 1
    /\ result = "err_stream"

\* The stream of the event-ordering scenario.
ScenarioStream ==
    << AssistantMsg(<<"thinking", "tool_use">>),
       UserMsg(Payload(TRUE, FALSE, FALSE, FALSE)),
       AssistantMsg(<<"text">>),
       ResultMsg(1) >>

ScenarioRun ==
    /\ Returned /\ hasSink /\ result = "ok"
    /\ consumed = ScenarioStream

\* C3 as stated: for the scenario stream the complete sequence of event types
\* is [phase_change, turn_complete, thinking, tool_call, tool_result,
\* turn_complete, message, complete].
C3_ScenarioEventsAsStated ==
    ScenarioRun =>
        EventTypes(events) =
            << "phase_change", "turn_complete", "thinking", "tool_call",
               "tool_result", "turn_complete", "message", "complete" >>

PhaseOrType(e) == IF e.type = "phase_change" THEN e.phase ELSE e.type
ScenarioTail ==
    << "exploring", "turn_complete", "thinking", "tool_call", "tool_result",
       "turn_complete", "message", "completed", "complete" >>

\* C3 amended: for the scenario stream the events delivered, ask_user events
\* aside, are phase_change(initializing), a second phase_change(initializing)
\* only when Playwright is enabled and its gateway was established, then
\* phase_change(exploring), turn_complete, thinking, tool_call, tool_result,
\* turn_complete, message, phase_change(completed), complete.
C3_ScenarioEvents ==
    ScenarioRun =>
        LET evs == SelectSeq(events, LAMBDA e : e.type # "ask_user")
            seen == [i \in 1..Len(evs) |-> PhaseOrType(evs[i])]
        IN  \/ seen = <<"initializing">> \o ScenarioTail
            \/ /\ enablePlaywright
               /\ seen = <<"initializing", "initializing">> \o ScenarioTail

C3_Witness == ScenarioRun /\ ~enablePlaywright

\* The events a message or one of its content blocks caused.
StreamDerived(evs) == SelectSeq(evs, LAMBDA e : e.msg > 0)
CauseBefore(a, b) == a.msg < b.msg \/ (a.msg = b.msg /\ a.blk < b.blk)
MatchesCause(e) ==
    /\ e.msg <= Len(consumed)
    /\ LET m == consumed[e.msg]
       IN  IF e.blk = 0
           THEN \/ m.type = "assistant" /\ e.type = "turn_complete"
                \/ m.type = "user" /\ m.toolResult.defined /\ e.type = "tool_result"
           ELSE /\ m.type = "assistant"
                /\ e.blk <= Len(m.blocks)
                /\ e.type = BlockEventType(m.blocks[e.blk])
HasEvent(evs, mi, bi) == \E i \in 1..Len(evs) : evs[i].msg = mi /\ evs[i].blk = bi

\* C4: the stream-derived events are delivered in the order of the messages
\* and content blocks that caused them, one per cause, and on a successful
\* run complete is the last event delivered.
C4_StreamOrder ==
    (host = "runAgent" /\ hasSink) =>
        LET se == StreamDerived(events)
        IN  /\ \A i \in 1..Len(se) : MatchesCause(se[i])
            /\ \A i \in 1..Len(se) : \A j \in 1..Len(se) :
                   i < j => CauseBefore(se[i], se[j])
            /\ \A mi \in 1..Len(consumed) :
                   LET m == consumed[mi]
                   IN  /\ (m.type = "assistant" \/ (m.type = "user" /\ m.toolResult.defined))
                              => HasEvent(se, mi, 0)
                       /\ \A bi \in 1..Len(m.blocks) :
                              (m.type = "assistant" /\ BlockEventType(m.blocks[bi]) # "none")
                                  => HasEvent(se, mi, bi)
            /\ (pc = "returned" /\ result = "ok") =>
                   /\ events[Len(events)].type = "complete"
                   /\ CountOf(events, "complete") = 1

C4_Witness ==
    /\ Returned /\ hasSink /\ result = "ok"
    /\ Len(consumed) >= 3
    /\ Len(StreamDerived(events)) >= 5

\* C5: if the stream throws while an ask_user question is pending, that
\* question's promise is rejected before runAgent returns.
C5_PendingRejectedOnThrow ==
    (Returned /\ streamEnd = "threw") =>
        \A q \in CallIds : calls[q].promise # "pending"

\* C6: a question pending when the cancellation signal fired is not left
\* unsettled when runAgent returns, whether the stream then threw or closed.
C6_PendingRejectedOnAbort ==
    Returned => \A q \in abortPending : calls[q].promise # "pending"

\* C7: with no interactive consumer (no ask handler given to the catalogue, or
\* a run without an event sink) an ask_user invocation has returned an error
\* envelope as soon as it was made and is never suspended.
C7_AskFailsFastWithoutConsumer ==
    ((host = "catalogue" /\ ~hasAskHandler) \/ (host = "runAgent" /\ ~hasSink)) =>
        \A q \in CallIds :
            calls[q].tool = "ask_user" =>
                (calls[q].pc = "done" /\ calls[q].envelope = "error")

\* C8: after each cleanup() call returns, every session field is null.
C8_CleanupLeavesAllNull ==
    [][cleanupsDone' > cleanupsDone => AllNull(mgr')]_vars

\* C9: cleanup never raises: whether the kill succeeded or threw, runAgent
\* returns the stream's own outcome (the ok report, or the stream's error)
\* and the session fields are null.
C9_KillFailureSwallowed ==
    (Returned /\ streamEnd # "none") =>
        /\ result = (IF streamEnd = "threw" THEN "err_stream" ELSE "ok")
        /\ report = (IF streamEnd = "threw" THEN NoReport
                     ELSE buildReport(finalResult, turnCount, totalCost, NULL))
        /\ AllNull(mgr)

C9_Witness ==
    /\ Returned /\ killFailed /\ result = "ok" /\ alive # {}
    /\ AllNull(mgr)

\* C10: the repo path is null unless a clone has succeeded since the session
\* was last initialized or cleaned up.
C10_RepoPathOnlyAfterClone ==
    mgr.repoPath # NULL => clonedSince

\* ---------------------------------------------------------------- C11
PathRelativeTools == {"sandbox_read", "sandbox_write", "sandbox_ls", "sandbox_grep",
                      "sandbox_exec", "sandbox_git_log", "sandbox_git_checkout",
                      "sandbox_bisect"}

\* C11: a path-relative operation (read, write, list, search, run command,
\* git log, git checkout, bisect) invoked on an initialized session whose
\* repo path is null either fails with the not-initialized error or issues
\* remote calls whose derived location is the repo path, and no other.
C11_PathOpsResolveAgainstRepo ==
    (/\ op.tool \in PathRelativeTools /\ op.called
     /\ op.handle # NULL /\ op.before.repoPath = NULL)
    => \/ op.pc = "done" /\ op.result = NotInitialized /\ remote = <<>>
       \/ \A i \in 1..Len(remote) : remote[i].relative => remote[i].at = "repo"

\* ---------------------------------------------------------------- C12
\* C12: a sandbox operation invoked while the manager holds no sandbox
\* returns the not-initialized error in the same step, with no remote call
\* issued and every field of the manager as it was.
C12_NotInitializedFailsFast ==
    [][(op' # op /\ op'.called /\ op'.handle = NULL)
       => /\ op'.pc = "done"
          /\ op'.result = NotInitialized
          /\ remote' = <<>>
          /\ mgr' = mgr]_vars

\* gitBisectRun was invoked with no sandbox and returned not-initialized.
C12_Witness ==
    /\ op.tool = "sandbox_bisect" /\ op.called /\ op.handle = NULL
    /\ op.pc = "done" /\ op.result = NotInitialized /\ op.envelope = "error"
    /\ remote = <<>>

\* ---------------------------------------------------------------- C13
\* C13: when gitBisectRun returns after it attempted the bisection start,
\* it has issued a bisect reset (on start failure, mark failure, first bad
\* commit found, step ceiling reached, exception of the test command).
C13_BisectResetOnEveryReturn ==
    (op.tool = "sandbox_bisect" /\ op.pc = "done" /\ remote # <<>>)
    => \E i \in 1..Len(remote) : remote[i].what = "bisect_reset"

\* ---------------------------------------------------------------- C14
\* C14: when the marks of a gitBisectRun end with the report that the first
\* bad commit was found, the last remote call before gitBisectRun returns is
\* the bisect reset, and gitBisectRun returns the found result whether the
\* reset succeeded or failed.
C14_FoundResultAfterReset ==
    (/\ op.tool = "sandbox_bisect" /\ op.pc = "done"
     /\ op.pending.settled /\ op.pending.ok /\ op.pending.value.found)
    => /\ remote[Len(remote)].what = "bisect_reset"
       /\ remote[Len(remote) - 1].what = "bisect_log"
       /\ op.result.ok /\ op.result.value.found
       /\ op.result = op.pending

\* The first bad commit was found, the reset failed, the found result came back.
C14_Witness ==
    /\ op.tool = "sandbox_bisect" /\ op.pc = "done"
    /\ op.result.ok /\ op.result.value.found /\ op.result.value.hasCommit
    /\ ~op.resetOk /\ bisecting
    /\ remote[Len(remote)].what = "bisect_reset"

\* ---------------------------------------------------------------- C15
\* C15: the status of every report buildReport returns is one of the five
\* variants, with a summary and the variant's extra field.
C15_StatusAlwaysWellFormed ==
    built.built
    => /\ built.status.defined
       /\ built.status.type \in StatusTags
       /\ built.status.summary.kind = "string"
       /\ built.status.field = ExtraField(built.status.type)
       /\ built.status.extra.kind # "absent"

\* ---------------------------------------------------------------- C16
\* C16: when no structured object is extracted from the result text (empty
\* text and no result message included), the status is failed with the first
\* 500 characters of the text as its summary if the run signalled an error,
\* and needs_human with one blocker about the parse failure otherwise;
\* reproduced is false, the root cause null and the change list empty.
C16_FallbackReport ==
    (built.built /\ ~built.structured)
    => /\ built.status.defined
       /\ built.status.type = (IF resultMsg.present /\ resultMsg.is_error
                               THEN "failed" ELSE "needs_human")
       /\ built.status.summary.kind = "string"
       /\ LET summary == built.status.summary.str
              text == IF resultMsg.present /\ resultMsg.hasResult
                      THEN resultMsg.text ELSE <<>>
          IN  /\ Len(summary) = (IF Len(text) > 500 THEN 500 ELSE Len(text))
              /\ \A i \in 1..Len(summary) : summary[i] = text[i]
       /\ IF built.status.type = "failed"
          THEN built.status.field = "error" /\ built.status.extra.kind = "string"
          ELSE /\ built.status.field = "blockers"
               /\ built.status.extra.kind = "array"
               /\ Len(built.status.extra.arr) = 1
       /\ built.reproduced = Bool(FALSE)
       /\ built.rootCause = Absent
       /\ built.changes = <<>>

\* A text longer than the preview, with the error flag set, became a failed
\* status whose summary is the preview.
C16_Witness ==
    /\ built.built /\ ~built.structured
    /\ resultMsg.is_error /\ Len(resultMsg.text) > PreviewLimit
    /\ built.status.type = "failed"
    /\ Len(built.status.summary.str) = PreviewLimit

\* ---------------------------------------------------------------- C17
\* What the text of a status object says about a member.
Mentions(text, name) ==
    \E i \in 1..Len(text) : MatchAt(text, i, Quoted(Spell(name)) \o <<":">>)
HasMember(text, name, valueText) ==
    \E i \in 1..Len(text) : MatchAt(text, i, Member(name, valueText))
\* The values an extra field is written with, and what they stand for.
ExtraTexts(tag) ==
    IF ExtraField(tag) = "blockers"
    THEN {<<"[", "]">>, <<"[">> \o Quoted(<<"b">>) \o <<"]">>}
    ELSE {Quoted(<<>>), Quoted(<<"v">>)}
ValueOf(valueText) ==
    IF valueText[1] = "["
    THEN Arr(IF Len(valueText) = 2 THEN <<>> ELSE << <<"b">> >>)
    ELSE Str(SubSeq(valueText, 2, Len(valueText) - 1))

C18_BracesInSummaryParse ==
    \A kind \in {"balanced", "unbalanced"} :
        (/\ built.built
         /\ HasMember(resultMsg.text, "summary", Quoted(SummaryText(kind)))
         /\ \E tag \in StatusTags :
                HasMember(resultMsg.text, "status", Quoted(Spell(tag))))
        => /\ built.structured
           /\ built.status.summary = Str(SummaryText(kind))

\* ---------------------------------------------------------------- C19
StreamEventTypes == {"turn_complete", "tool_call", "tool_result", "thinking", "message"}

\* C19: the stream is open only in a run whose initialize() succeeded, and a
\* run whose initialize() failed has returned err with the stream never
\* opened, no exploring phase and no turn, tool, thinking or message event.
C19_StreamOnlyAfterInit ==
    /\ (host = "runAgent" /\ (pc = "streaming" \/ streamEnd # "none" \/ consumed # <<>>))
       => (created > 0 /\ result # "err_init")
    /\ result = "err_init"
       => /\ pc = "returned"
          /\ streamEnd = "none" /\ consumed = <<>> /\ turnCount = 0
          /\ \A i \in 1..Len(events) :
                /\ events[i] # PhaseChange("exploring")
                /\ events[i].type \notin StreamEventTypes

\* The token request failed after the sandbox was created: err, two events.
C19_Witness ==
    /\ result = "err_init" /\ hasSink /\ created = 1
    /\ events = <<PhaseChange("initializing"), ErrorEvent>>

C21_OkResultGivesSuccessEnvelope ==
    (op.pc = "done" /\ op.result.settled /\ op.result.ok) => op.envelope = "ok"

\* ---------------------------------------------------------------- C22
\* C22: runCommand returns Result ok with the exit code whenever the remote
\* command ran, a non-zero exit code included, and Result err only when it
\* could not be run: no sandbox handle, a timeout, or a remote error.
C22_RunCommandOkWheneverRan ==
    (op.tool = "sandbox_exec" /\ op.pc = "done")
    => /\ op.result.settled
       /\ op.result.ok <=> op.last \in {"exit0", "nonzero"}
       /\ op.last = "exit0" => op.result.value.exitCode = 0
       /\ op.last = "nonzero" => op.result.value.exitCode # 0
       /\ ~op.result.ok
          => \/ op.handle = NULL /\ op.last = "none" /\ op.result.error = "not_initialized"
             \/ op.handle # NULL /\ op.last = "timeout" /\ op.result.error = "timeout"
             \/ op.handle # NULL /\ op.last = "error" /\ op.result.error = "sandbox"

\* A command ran and exited non-zero: Result ok with that exit code.
C22_Witness ==
    /\ op.tool = "sandbox_exec" /\ op.pc = "done"
    /\ op.last = "nonzero" /\ op.result.ok /\ op.result.value.exitCode # 0

\* ---------------------------------------------------------------- C23
\* C23 as stated: every tool other than sandbox_clone that was invoked with
\* no sandbox has returned an error envelope.
C23_EveryOtherToolFailsUninitialized ==
    (op.tool \notin {"none", "sandbox_clone"} /\ op.handle = NULL /\ op.pc = "done")
    => op.envelope = "error"

\* C23: only sandbox_clone moves the manager from no sandbox to a sandbox;
\* every other tool invoked with no sandbox leaves every field of the
\* manager as it was, and every other tool but ask_user, which does not use
\* the sandbox, returns an error envelope in the step it is invoked.
C23_OnlyCloneInitializes ==
    [][/\ (op.pc \notin {"idle", "done"} /\ mgr' # mgr) => op.tool = "sandbox_clone"
       /\ (/\ op.pc \in {"idle", "done"} /\ op' # op
           /\ op'.tool # "sandbox_clone" /\ mgr.sandbox = NULL)
          => /\ mgr' = mgr
             /\ op'.handle = NULL
             /\ op'.tool # "ask_user" => (op'.pc = "done" /\ op'.envelope = "error")]_vars

\* sandbox_clone was invoked with no sandbox, created one and cloned into it.
C23_Witness ==
    /\ op.tool = "sandbox_clone" /\ op.pc = "done" /\ op.envelope = "ok"
    /\ op.before.sandbox = NULL /\ mgr.sandbox # NULL /\ mgr.repoPath # NULL

\* ---------------------------------------------------------------- C24
\* What the text of a URL stands for: it has the form
\* github.com/{owner}/{repo}/issues/{n} with n a positive integer.
WellFormedUrl(u) ==
    /\ u.host = <<"g", "i", "t", "h", "u", "b", ".", "c", "o", "m">>
    /\ u.owner # <<>> /\ u.repo # <<>>
    /\ u.section = <<"i", "s", "s", "u", "e", "s">>
    /\ \E n \in 1..MaxIssueNumber : u.number = Decimal(n)

\* C24: parseIssueUrl fails with InvalidIssueUrlError for every malformed
\* URL, and for every URL of the form github.com/{owner}/{repo}/issues/{n}
\* with n a positive integer it returns that owner, repo and number.
C24_ParseIssueUrl ==
    parsedUrl.returned
    => IF WellFormedUrl(issueUrl)
       THEN /\ parsedUrl.ok
            /\ parsedUrl.owner = issueUrl.owner
            /\ parsedUrl.repo = issueUrl.repo
            /\ Decimal(parsedUrl.issueNumber) = issueUrl.number
       ELSE ~parsedUrl.ok

\* C25: on a successful run cleanup has run before the report is built, and
\* the report's preview URL is the port-3000 host URL of the sandbox the run
\* used, which is not null since the run's sandbox was initialized.
C25_ReportHasPreviewUrl ==
    (Returned /\ result = "ok") =>
        /\ cleanupsDone >= 1
        /\ report.built
        /\ report.sandboxUrl # NULL
        /\ \E s \in 1..created : report.sandboxUrl = HostOf(s, PreviewPort)

IsAssistant(i) == consumed[i].type = "assistant"
AssistantCount == Cardinality({i \in 1..Len(consumed) : IsAssistant(i)})
TurnEvents == SelectSeq(events, LAMBDA e : e.type = "turn_complete")

\* C26: each assistant message increments the turn counter by one and emits
\* turn_complete with the new count before any event of its content blocks;
\* the emitted turn numbers are 1, 2, ..., n in this order, one per assistant
\* message, and on a successful run report.turnsUsed is n.
C26_TurnsCountAssistantMessages ==
    /\ turnCount = AssistantCount
    /\ hasSink =>
          /\ Len(TurnEvents) = AssistantCount
          /\ \A k \in 1..Len(TurnEvents) :
                /\ TurnEvents[k].n = k
                /\ IsAssistant(TurnEvents[k].msg)
                /\ TurnEvents[k].msg =
                      Least({i \in 1..Len(consumed) : IsAssistant(i)
                               /\ Cardinality({j \in 1..i : IsAssistant(j)}) = k})
          /\ \A i, j \in 1..Len(events) :
                (events[i].type = "turn_complete" /\ events[j].msg = events[i].msg /\ j # i)
                    => i < j
    /\ result = "ok" => report.turnsUsed = AssistantCount

\* C26's case: a successful run of three messages, two of them assistant
\* messages with content blocks, the second after another message.
C26_Witness ==
    /\ Returned /\ result = "ok" /\ hasSink
    /\ Len(consumed) = 3 /\ IsAssistant(1) /\ ~IsAssistant(2) /\ IsAssistant(3)
    /\ consumed[1].blocks # <<>> /\ consumed[3].blocks # <<>>
    /\ report.turnsUsed = 2
    /\ CountOf(events, "turn_complete") = 2

ResultIndices == {i \in 1..Len(consumed) : consumed[i].type = "result"}
LastResult == IF ResultIndices = {} THEN NULL
              ELSE CHOOSE i \in ResultIndices : \A j \in ResultIndices : j <= i
LastCost == IF LastResult = NULL THEN 0 ELSE consumed[LastResult].cost

\* C27: a result message does not end the run: the loop goes on until the
\* stream ends, the messages after a result message still emit their events,
\* a run returns ok only once the stream has closed, and the report is built
\* from the last result message received and its cost, or from no result
\* message and zero cost when none arrived.
C27_LastResultMakesReport ==
    /\ (consumed # <<>> /\ streamEnd = "none") => pc = "streaming"
    /\ finalResult = LastResult /\ totalCost = LastCost
    /\ hasSink =>
          \A i \in 1..Len(consumed) :
              /\ IsAssistant(i) =>
                    \E k \in 1..Len(events) :
                        events[k].type = "turn_complete" /\ events[k].msg = i
              /\ (consumed[i].type = "user" /\ consumed[i].toolResult.defined) =>
                    \E k \in 1..Len(events) :
                        events[k].type = "tool_result" /\ events[k].msg = i
    /\ result = "ok" =>
          /\ streamEnd = "closed"
          /\ report.built
          /\ report.finalResult = LastResult
          /\ report.costUsd = LastCost

\* C27's case: a result message, then an assistant message that is still
\* processed, then a second result message, which the report is built from.
C27_Witness ==
    /\ Returned /\ result = "ok" /\ hasSink
    /\ Len(consumed) = 3
    /\ consumed[1] = ResultMsg(1) /\ IsAssistant(2) /\ consumed[3] = ResultMsg(2)
    /\ CountOf(events, "turn_complete") = 1
    /\ report.finalResult = 3 /\ report.costUsd = 2

CarriesToolResult(i) == consumed[i].type = "user" /\ consumed[i].toolResult.defined
ToolResultEvents == SelectSeq(events, LAMBDA e : e.type = "tool_result")

\* C28: a tool_result event is emitted exactly for the user messages that
\* carry a tool result, one each and in the stream's order, and for no other
\* message; its success flag is the negation of isError when the payload has
\* isError, else the payload's success field when it has one, else true.
C28_ToolResultPerCarrier ==
    hasSink =>
        /\ Len(ToolResultEvents) = Cardinality({i \in 1..Len(consumed) : CarriesToolResult(i)})
        /\ \A k \in 1..Len(ToolResultEvents) :
              LET i == ToolResultEvents[k].msg
                  p == consumed[i].toolResult
              IN  /\ i \in 1..Len(consumed) /\ CarriesToolResult(i)
                  /\ \A l \in 1..(k - 1) : ToolResultEvents[l].msg < i
                  /\ p.hasIsError => ToolResultEvents[k].success = ~p.isError
                  /\ (~p.hasIsError /\ p.hasSuccess) => ToolResultEvents[k].success = p.success
                  /\ (~p.hasIsError /\ ~p.hasSuccess) => ToolResultEvents[k].success

\* C28's case: a payload with isError true and success true is reported as a
\* failure, one with only success false as a failure, and a user message
\* without a tool result emits nothing.
C28_Witness ==
    /\ hasSink /\ pc = "streaming" /\ Len(consumed) = 3
    /\ consumed[1] = UserMsg(Payload(TRUE, TRUE, TRUE, TRUE))
    /\ consumed[2] = UserMsg(NoPayload)
    /\ consumed[3] = UserMsg(Payload(FALSE, FALSE, TRUE, FALSE))
    /\ Len(ToolResultEvents) = 2
    /\ ~ToolResultEvents[1].success /\ ~ToolResultEvents[2].success

Bisecting == op.tool = "sandbox_bisect" /\ op.called
TestCalls == Len(SelectSeq(remote, LAMBDA c : c.what = "bisect_test"))
Max0(n) == IF n < 0 THEN 0 ELSE n

\* C29 as stated: the test command ran at most maxSteps times, the returned
\* stepsCount does not exceed maxSteps, and found = false is returned only
\* after maxSteps steps.
C29_StepsWithinMaxSteps ==
    (Bisecting /\ op.pc = "done" /\ op.result.ok) =>
        /\ TestCalls <= op.maxSteps
        /\ op.result.value.stepsCount <= op.maxSteps
        /\ ~op.result.value.found => op.steps = op.maxSteps

\* C29, amended: gitBisectRun always returns; with the ceiling taken as 0
\* for a negative maxSteps (and 20 for an omitted one) it runs the test
\* command at most that many times, marks the commit good exactly when the
\* test command exited 0, runs no further test once a mark reported the
\* first bad commit, returns found = false only after as many steps as the
\* ceiling, and returns a stepsCount equal to the number of tests it ran.
C29_BisectTerminatesWithinCeiling ==
    /\ [](Bisecting =>
            /\ ~op.maxStepsGiven => op.maxSteps = 20
            /\ TestCalls = op.steps
            /\ op.steps <= Max0(op.maxSteps)
            /\ op.pc = "bisect_mark" => (op.mark = "good" <=> op.last = "exit0")
            /\ op.pc = "bisect_log" => op.last = "first_bad"
            /\ (op.pc = "done" /\ op.result.ok) =>
                  /\ op.result.value.stepsCount = op.steps
                  /\ op.result.value.found => op.steps >= 1
                  /\ ~op.result.value.found => op.steps = Max0(op.maxSteps))
    /\ [][/\ (op.pc = "bisect_mark" /\ op'.last = "first_bad") => op'.pc = "bisect_log"
          /\ (op.pc \in {"bisect_log", "bisect_reset"}) =>
                (TestCalls' = TestCalls /\ op'.pc \in {"bisect_reset", "done"})]_vars
    /\ (Bisecting /\ op.pc # "done") ~> (op.pc = "done")

\* C29's case: a bisection that ran to its ceiling of two steps, the first
\* test exiting non-zero or zero, without a first bad commit being reported.
C29_Witness ==
    /\ Bisecting /\ op.pc = "done" /\ op.result.ok
    /\ op.maxStepsGiven /\ op.maxSteps = 2
    /\ ~op.result.value.found /\ op.result.value.stepsCount = 2
    /\ TestCalls = 2

\* C30: a sandbox operation whose remote call exceeded its timeout returns
\* the timeout error, not the generic sandbox error; for clone, run command,
\* list, search, git log and git checkout alike.
C30_TimeoutIsDistinguished ==
    (/\ op.tool \in {"sandbox_clone", "sandbox_exec", "sandbox_ls", "sandbox_grep",
                     "sandbox_git_log", "sandbox_git_checkout"}
     /\ op.pc = "done" /\ op.last = "timeout")
        => op.result = TimeoutError

\* C31: the options the streaming session is opened with carry the turn cap
\* of the run configuration when it sets one, and no turn ceiling when it
\* sets none.
C31_TurnCapReachesSession ==
    queryOptions.opened =>
        IF maxTurns # NULL
        THEN queryOptions.hasMaxTurns /\ queryOptions.maxTurns = maxTurns
        ELSE ~queryOptions.hasMaxTurns

\* C32: when initialize() returned err, the manager holds no sandbox handle
\* (isInitialized is false) and its gateway url and token are null, also
\* when the sandbox was created and getting the gateway token failed.
C32_FailedInitializeHoldsNothing ==
    (host = "runAgent" /\ result = "err_init") =>
        /\ ~isInitialized(mgr)
        /\ mgr.mcpUrl = NULL
        /\ mgr.mcpToken = NULL

AskedQuestions == {q \in CallIds : calls[q].tool = "ask_user"}

\* C33: when two ask_user questions were asked in overlapping tool calls and
\* the stream then threw, runAgent does not return while a promise of either
\* is unsettled.
C33_OverlappingQuestionsRejected ==
    (Returned /\ streamEnd = "threw" /\ Cardinality(AskedQuestions) >= 2) =>
        {q \in AskedQuestions : calls[q].promise = "pending"} = {}

LastAsked == CHOOSE q \in AskedQuestions : \A other \in AskedQuestions : other <= q

\* C34: invoking the resolver of one question, once or again, does not affect
\* another question: the question asked last, whose reject the run holds, is
\* rejected when the stream throws unless its own resolver was invoked.
C34_ResolverLeavesOthersAlone ==
    (Returned /\ streamEnd = "threw" /\ AskedQuestions # {}) =>
        calls[LastAsked].promise # "pending"

\* C35: a manager never orphans a live remote sandbox: every remote sandbox
\* that is alive is the one the manager holds, or the one a cleanup in
\* progress is killing (a sandbox whose kill threw is not held against it).
C35_NoOrphanedSandbox ==
    ~killFailed => alive \subseteq {mgr.sandbox, killHandle}

\* C36: an error event is terminal for the event stream: once it has been
\* delivered to the sink no further event of the run is delivered, in
\* particular no phase_change to completed.
C36_ErrorIsTerminal ==
    \A i \in 1..Len(events) : events[i].type = "error" => i = Len(events)

\* C37: whenever gitBisectRun returns found = true it returns the identified
\* commit with it, so that sandbox_bisect reports the commit and not an
\* inconclusive bisection.
C37_FoundComesWithCommit ==
    (op.tool = "sandbox_bisect" /\ op.pc = "done" /\ op.result.ok /\ op.result.value.found)
        => op.result.value.hasCommit

\* The places of content at which old_string stands.
OccurrencePlaces(content, old_string) ==
    {i \in 1..(Len(content) + 1) :
        /\ i + Len(old_string) - 1 <= Len(content)
        /\ SubSeq(content, i, i + Len(old_string) - 1) = old_string}
OccursOnce(edit) ==
    edit.read /\ Cardinality(OccurrencePlaces(edit.content, edit.old_string)) = 1
WriteIssued == \E i \in 1..Len(remote) : remote[i].api = "files.write"

\* C38: sandbox_edit issues its write only when the file was read and
\* old_string occurs exactly once in it; in every other case it finishes
\* with an error envelope and no write was issued.
C38_EditWritesOnlyUniqueMatch ==
    (op.tool = "sandbox_edit" /\ op.pc \in {"edit_write", "done"}) =>
        /\ WriteIssued => OccursOnce(op.edit)
        /\ (op.pc = "done" /\ ~OccursOnce(op.edit)) =>
               (op.envelope = "error" /\ ~WriteIssued)

\* C39: whenever the manager holds no sandbox handle, its repository path,
\* start time, gateway url and gateway token are null as well.
C39_NullHandleMeansAllNull ==
    mgr.sandbox = NULL =>
        /\ mgr.repoPath = NULL
        /\ mgr.startedAt = NULL
        /\ mgr.mcpUrl = NULL
        /\ mgr.mcpToken = NULL

====
